---- MODULE Spec2Model ----
(***************************************************************************)
(* A model of LlamaSidekick's core: the path guard and the mutation writer *)
(* (package safeio), the Ollama transport client (package ollama) and the  *)
(* interaction modes that drive them (package modes), with the session    *)
(* file (package session) and the prompt, menu and list screens (package   *)
(* ui).                                                                    *)
(*                                                                         *)
(* Paths and file contents are sequences of one-token strings, so that     *)
(* Clean, Join, HasPrefix and a partial write are computed, not assumed.   *)
(* The platform modelled is Unix: os.PathSeparator is "/".                 *)
(***************************************************************************)
EXTENDS Integers, Sequences, FiniteSets, TLC

VARIABLES
    \* ---- safeio.ResolveWithinRoot: one call and its result
    root, userPath, getwdOk, resolved,
    \* ---- safeio.WriteFileWithBackup: the file tree, the call's position,
    \* its arguments, locals and results
    fs, pc, absPath, content, existing, backupPath, err,
    \* history of the call in progress and of the calls so far: the entry at
    \* absPath when the call began, whether its backup write failed, the
    \* contents of the latest unbroken run of successful calls (last two),
    \* the run's length and whether it began on a missing file
    prior, backupFailed, okRun, okCount, freshRun,
    \* the file tree as the call in progress found it
    treeAtCall,
    \* ---- ollama.Client: the server's answer (body, and status once the
    \* response is in), the call in progress and its position, the scanner
    \* (next line, error), the decoded frame, the chunks handed to the
    \* callback, the call's result, whether the response body is open, the
    \* requests sent, and the error the callback returned (if it did)
    body, status, call, cpc, next, scanErr, genResp, delivered, result,
    respOpen, requests, cbErr,
    \* the calls of the callback that have not returned yet
    active,
    \* the request last handed to the HTTP client
    sentRequest,
    \* ---- modes: the session (History as the roles of its messages,
    \* LastEditedFile), the interaction in progress and its position, the
    \* edit target (named and resolved), the files of the model's reply not
    \* yet created, the error returned, the regular files on disk, the
    \* paths the path guard has returned, the calls that wrote a named file,
    \* and the interactions so far
    History, lastEditedFile, mode, mpc, fileToEdit, editAbs, files, modeErr,
    disk, accepted, fsLog, turns, logAtCall, nCreated, nFailed, reportedCreated,
    \* the file the edit request names (in the input, else the session's last
    \* edited file) and the filename field of the model's decoded reply
    named, resultFilename,
    \* the regular files on disk when the interaction began
    diskAtCall,
    \* ---- modes.BuildConversationContext: one call, with the session's
    \* messages and the enhanced last user message it is given, and the
    \* string it returns, as the sequence of the pieces written to it
    sessHistory, enhancedLastUserMessage, conversation, built, calls,
    \* ---- the structured reply: the text to decode, the decoding attempt
    \* reached, the files decoded and the error returned
    jsonResponse, ppc, parsedFiles, parseErr,
    \* ---- the program: the position of ui.Run, the errors of ListModels, of
    \* CheckConnection and of Run, what has been done so far (session loaded,
    \* first run, lines read), the line last read, whether the menu is open,
    \* and the history of the session
    rpc, listErr, connErr, runErr, sessionLoaded, firstRun, promptsRead, lastLine, inMenu, sessionHistory,
    \* ---- the session file: the session in memory, the file session.json, the
    \* session Load returned, the position (new, saved, loaded) and the errors
    \* of Save and Load
    sess, sessionFile, loaded, spc, saveErr, loadErr,
    \* the working directory handed to Load as its projectRoot
    cwd,
    \* ---- CMD mode: the history of the session, the input of the interaction
    \* in progress, how it was started (the loop or the quick command), its
    \* position, what has been done with the reply, the clipboard and the
    \* interactions so far
    cmdHistory, cmdInput, via, cmdpc, effects, clipboard, cmdTurns,
    \* ---- the list screens: which screen runs, its cursor(s), the state and
    \* mode of the model configuration, the models loaded, whether they are
    \* still loading, whether Enter selected, whether an error is shown, the
    \* message Init's command has yet to deliver, whether the screen has quit,
    \* the index expression last evaluated on a selection, whether the program
    \* panicked, and the models assigned to the modes
    screen, cursor, modelCursor, configState, currentMode, availableModels,
    loading, selected, uiErr, inbox, quit, indexed, panicked, cfgModels

resolveVars == <<root, userPath, getwdOk, resolved>>
writeVars == <<fs, pc, absPath, content, existing, backupPath, err,
               prior, backupFailed, okRun, okCount, freshRun, treeAtCall>>
clientVars == <<body, status, call, cpc, next, scanErr, genResp, delivered, result,
                respOpen, requests, cbErr, active, sentRequest>>
modeVars == <<History, lastEditedFile, mode, mpc, fileToEdit, editAbs, files, modeErr,
              disk, accepted, fsLog, turns, logAtCall,
              nCreated, nFailed, reportedCreated, named, resultFilename,
              diskAtCall>>
contextVars == <<sessHistory, enhancedLastUserMessage, conversation, built, calls>>
parseVars == <<jsonResponse, ppc, parsedFiles, parseErr>>
programVars == <<rpc, listErr, connErr, runErr, sessionLoaded, firstRun, promptsRead, lastLine, inMenu, sessionHistory>>
sessionVars == <<sess, sessionFile, loaded, spc, saveErr, loadErr, cwd>>
cmdVars == <<cmdHistory, cmdInput, via, cmdpc, effects, clipboard, cmdTurns>>
screenVars == <<screen, cursor, modelCursor, configState, currentMode, availableModels,
               loading, selected, uiErr, inbox, quit, indexed, panicked, cfgModels>>
vars == <<resolveVars, writeVars, clientVars, modeVars, contextVars,
          parseVars, programVars, sessionVars, cmdVars, screenVars>>
\* what each component's steps leave alone
notResolve == <<writeVars, clientVars, modeVars, contextVars, parseVars,
                programVars, sessionVars, cmdVars, screenVars>>
notWrite == <<resolveVars, clientVars, modeVars, contextVars, parseVars,
              programVars, sessionVars, cmdVars, screenVars>>
notClient == <<resolveVars, writeVars, modeVars, contextVars, parseVars,
               programVars, sessionVars, cmdVars, screenVars>>
notModes == <<resolveVars, writeVars, clientVars, contextVars, parseVars,
              programVars, sessionVars, cmdVars, screenVars>>
notContext == <<resolveVars, writeVars, clientVars, modeVars, parseVars,
                programVars, sessionVars, cmdVars, screenVars>>
notParse == <<resolveVars, writeVars, clientVars, modeVars, contextVars,
              programVars, sessionVars, cmdVars, screenVars>>
notProgram == <<resolveVars, writeVars, clientVars, modeVars, contextVars,
                parseVars, sessionVars, cmdVars, screenVars>>
notSession == <<resolveVars, writeVars, clientVars, modeVars, contextVars,
                parseVars, programVars, cmdVars, screenVars>>
notCmd == <<resolveVars, writeVars, clientVars, modeVars, contextVars,
            parseVars, programVars, sessionVars, screenVars>>
notScreens == <<resolveVars, writeVars, clientVars, modeVars, contextVars,
                parseVars, programVars, sessionVars, cmdVars>>

(***************************************************************************)
(* Bounds and input sets                                                   *)
(***************************************************************************)
\* longest userPath handed to the path guard
MaxPathLen == 7
\* successful calls in a row that are counted (the count saturates here)
MaxRun == 3
\* lines in a response body
MaxLines == 3
\* interactions in one session
MaxTurns == 2
\* files in one structured reply of the model
MaxFiles == 2
\* messages in the history handed to BuildConversationContext
MaxHistory == 3
\* elements of a JSON array in the model's reply
MaxElems == 3
\* file names in one input of the user
MaxWords == 2
\* calls of BuildConversationContext on one session
MaxCalls == 2
\* lines read from the user in one run of the program
MaxInputs == 3
\* characters of the project root of a saved session
MaxStringLen == 2
\* messages of a saved session
MaxSaved == 2
\* interactions in CMD mode
MaxCmdTurns == 2

Sep == "/"
PathAlphabet == {Sep, ".", "a"}
\* the process's working directory, as os.Getwd reports it
Cwd == <<Sep, "w">>

RECURSIVE SeqsUpTo(_, _)
SeqsUpTo(S, n) ==
    IF n = 0 THEN {<< >>}
    ELSE LET shorter == SeqsUpTo(S, n - 1)
         IN  shorter \cup {Append(s, x) : s \in {t \in shorter : Len(t) = n - 1}, x \in S}

UserPaths == SeqsUpTo(PathAlphabet, MaxPathLen)
\* project roots: empty, the filesystem root, absolute, with a trailing
\* separator, relative, and relative through the parent directory
Roots == { << >>, <<Sep>>, <<Sep, "a">>, <<Sep, "a", Sep>>, <<"a">>, <<".", ".">> }

(***************************************************************************)
(* strings and path/filepath                                               *)
(***************************************************************************)
HasPrefix(s, prefix) ==
    /\ Len(prefix) <= Len(s)
    /\ SubSeq(s, 1, Len(prefix)) = prefix

HasSuffix(s, suffix) ==
    /\ Len(suffix) <= Len(s)
    /\ SubSeq(s, Len(s) - Len(suffix) + 1, Len(s)) = suffix

IsAbs(path) == HasPrefix(path, <<Sep>>)

\* the elements of path between separators, empty ones included
RECURSIVE SplitFrom(_, _, _)
SplitFrom(path, i, cur) ==
    IF i > Len(path) THEN <<cur>>
    ELSE IF path[i] = Sep THEN <<cur>> \o SplitFrom(path, i + 1, << >>)
    ELSE SplitFrom(path, i + 1, Append(cur, path[i]))

Split(path) == SplitFrom(path, 1, << >>)

DotDot == <<".", ".">>
Dot == <<".">>

\* Clean's element rules: drop empty and "." elements; ".." removes the
\* element before it, is dropped at the root of a rooted path, and is kept
\* at the front of a relative one
RECURSIVE CleanElems(_, _, _, _)
CleanElems(elems, i, out, rooted) ==
    IF i > Len(elems) THEN out
    ELSE LET e == elems[i] IN
         IF e = << >> \/ e = Dot THEN CleanElems(elems, i + 1, out, rooted)
         ELSE IF e = DotDot THEN
              IF out # << >> /\ out[Len(out)] # DotDot
                THEN CleanElems(elems, i + 1, SubSeq(out, 1, Len(out) - 1), rooted)
              ELSE IF rooted THEN CleanElems(elems, i + 1, out, rooted)
              ELSE CleanElems(elems, i + 1, Append(out, e), rooted)
         ELSE CleanElems(elems, i + 1, Append(out, e), rooted)

RECURSIVE JoinElems(_)
JoinElems(elems) ==
    IF elems = << >> THEN << >>
    ELSE IF Len(elems) = 1 THEN elems[1]
    ELSE elems[1] \o <<Sep>> \o JoinElems(Tail(elems))

Clean(path) ==
    IF path = << >> THEN Dot
    ELSE LET rooted == path[1] = Sep
             out    == CleanElems(Split(path), 1, << >>, rooted)
         IN  IF rooted THEN <<Sep>> \o JoinElems(out)
             ELSE IF out = << >> THEN Dot
             ELSE JoinElems(out)

\* filepath.Join of two non-empty elements
Join(a, b) == Clean(a \o <<Sep>> \o b)

\* filepath.Abs: ok is FALSE when the working directory cannot be read
Abs(path, wdOk) ==
    IF IsAbs(path) THEN [ok |-> TRUE, path |-> Clean(path)]
    ELSE IF ~wdOk THEN [ok |-> FALSE, path |-> << >>]
    ELSE [ok |-> TRUE, path |-> Join(Cwd, path)]

(***************************************************************************)
(* safeio.ResolveWithinRoot                                                *)
(***************************************************************************)
Rejected(why) == [absPath |-> << >>, relPath |-> << >>, err |-> why]

\* lines 24-26: the cleaned path names the root itself
NeverInvalid(clean) == FALSE
InvalidPath(clean) == clean = Dot

\* lines 28-31: the lexical test for a path that walks above the root
EscapesByPrefix(clean) == HasPrefix(clean, DotDot)
EscapesOnlyDotDot(clean) == clean = DotDot
EscapesRoot(clean) == clean = DotDot \/ HasPrefix(clean, DotDot \o <<Sep>>)

\* lines 43-46
RootWithSep(rootAbs) ==
    IF HasSuffix(rootAbs, <<Sep>>) THEN rootAbs ELSE rootAbs \o <<Sep>>

\* lines 47-49: the boundary test on the joined path
OutsideRoot(joinedAbs, rootAbs) ==
    joinedAbs # rootAbs /\ ~HasPrefix(joinedAbs, RootWithSep(rootAbs))

\* a guard with neither the lexical test nor the separator in the boundary
\* test: a sibling directory whose name extends the root's passes
ResolveSiblingPrefix(r, p, wdOk) ==
    IF r = << >> THEN Rejected("project root is empty")
    ELSE IF p = << >> THEN Rejected("path is empty")
    ELSE IF IsAbs(p) THEN Rejected("absolute paths are not allowed")
    ELSE LET clean   == Clean(p)
             rootAbs == Abs(r, wdOk)
             joined  == Abs(Join(rootAbs.path, clean), wdOk)
         IN  IF clean = Dot THEN Rejected("invalid path")
             ELSE IF ~rootAbs.ok THEN Rejected("failed to resolve project root")
             ELSE IF ~HasPrefix(joined.path, rootAbs.path)
               THEN Rejected("resolved path is outside project root")
             ELSE [absPath |-> joined.path, relPath |-> clean, err |-> ""]

\* part_001 51: the relative path returned with the absolute one
ReturnedAsGiven(p, clean) == p
ReturnedRelPath(p, clean) == clean

ResolveWithinRoot(r, p, wdOk) ==
    IF r = << >> THEN Rejected("project root is empty")
    ELSE IF p = << >> THEN Rejected("path is empty")
    ELSE IF IsAbs(p) THEN Rejected("absolute paths are not allowed")
    ELSE LET clean == Clean(p) IN
         IF InvalidPath(clean) THEN Rejected("invalid path")
         ELSE IF EscapesRoot(clean) THEN Rejected("path escapes project root")
         ELSE LET rootAbs == Abs(r, wdOk) IN
              IF ~rootAbs.ok THEN Rejected("failed to resolve project root")
              ELSE LET joined    == Join(rootAbs.path, clean)
                       joinedAbs == Abs(joined, wdOk)
                   IN  IF ~joinedAbs.ok THEN Rejected("failed to resolve path")
                       ELSE IF OutsideRoot(joinedAbs.path, rootAbs.path)
                         THEN Rejected("resolved path is outside project root")
                       ELSE [absPath |-> joinedAbs.path,
                             relPath |-> ReturnedRelPath(p, clean), err |-> ""]

NotCalled == [absPath |-> << >>, relPath |-> << >>, err |-> "not called"]

\* the guard at rest while another component is exercised
ResolveParked ==
    /\ root = << >> /\ userPath = << >> /\ getwdOk = TRUE /\ resolved = NotCalled

ResolveInit ==
    /\ root \in Roots
    /\ userPath \in UserPaths
    /\ getwdOk \in BOOLEAN
    /\ resolved = NotCalled

\* a caller hands (root, userPath) to the guard
Resolve ==
    /\ resolved = NotCalled
    /\ resolved' = ResolveWithinRoot(root, userPath, getwdOk)
    /\ UNCHANGED <<root, userPath, getwdOk>>
    /\ UNCHANGED notResolve


(***************************************************************************)
(* The file tree                                                           *)
(***************************************************************************)
NoEntry == [kind |-> "none", data |-> << >>]
DirEntry == [kind |-> "dir", data |-> << >>]
File(bytes) == [kind |-> "file", data |-> bytes]

\* file contents handed to the writer or found on disk
Contents == { << >>, <<"x">>, <<"y">>, <<"x", "y">> }

BackupSuffix == <<".backup">>
ProjectDir == <<Sep, "r">>
SubDir == ProjectDir \o <<Sep, "d">>
\* the file the writer is called on, one directory below the project root
TargetPath == SubDir \o <<Sep, "f">>
FsPaths == { <<Sep>>, ProjectDir, SubDir, TargetPath, TargetPath \o BackupSuffix }

\* filepath.Dir: the path up to its last separator, cleaned
RECURSIVE LastSep(_, _)
LastSep(path, i) ==
    IF i = 0 THEN 0 ELSE IF path[i] = Sep THEN i ELSE LastSep(path, i - 1)

Dir(path) == Clean(SubSeq(path, 1, LastSep(path, Len(path))))

\* trees the program can find: the project root exists; SubDir is missing,
\* a regular file or a directory; entries exist only inside a directory
InitialTrees ==
    { [p \in FsPaths |->
          IF p \in {<<Sep>>, ProjectDir} THEN DirEntry
          ELSE IF p = SubDir THEN d
          ELSE IF d.kind # "dir" THEN NoEntry
          ELSE IF p = TargetPath THEN f ELSE b]
      : d \in {NoEntry, DirEntry, File(<< >>)},
        f \in {NoEntry, DirEntry} \cup {File(c) : c \in Contents},
        b \in {NoEntry, DirEntry} \cup {File(c) : c \in Contents} }

\* os.Stat(path) succeeds and reports a non-directory (line 61)
StatIsDirectory(tree, path) == tree[path].kind = "dir"
StatIgnored(tree, path) == TRUE
StatRegular(tree, path) == tree[path].kind = "file"

\* os.OpenFile(path, O_WRONLY|O_CREATE|O_TRUNC) can succeed: the parent is
\* a directory and path is not one
CanOpenForWrite(tree, path) ==
    /\ tree[Dir(path)].kind = "dir"
    /\ tree[path].kind # "dir"

\* a MkdirAll that puts a directory in the place of any other entry
MkdirAllClobbering(tree, dir, mkdirOk) ==
    IF tree[dir].kind = "dir" THEN [ok |-> TRUE, fs |-> tree]
    ELSE [ok |-> TRUE, fs |-> [tree EXCEPT ![dir] = DirEntry]]

\* os.MkdirAll(dir): nothing to do for a directory, an error for another
\* entry, else the parents first and then Mkdir, which mkdirOk lets fail
RECURSIVE MkdirAll(_, _, _)
MkdirAll(tree, dir, mkdirOk) ==
    IF tree[dir].kind = "dir" THEN [ok |-> TRUE, fs |-> tree]
    ELSE IF tree[dir].kind = "file" THEN [ok |-> FALSE, fs |-> tree]
    ELSE LET up == MkdirAll(tree, Dir(dir), mkdirOk) IN
         IF ~up.ok THEN up
         ELSE IF ~mkdirOk THEN [ok |-> FALSE, fs |-> up.fs]
         ELSE [ok |-> TRUE, fs |-> [up.fs EXCEPT ![dir] = DirEntry]]

\* the bytes a write leaves in the file: all of them, or a prefix when the
\* write or the close fails
Prefixes(bytes) == { SubSeq(bytes, 1, n) : n \in 0..Len(bytes) }

(***************************************************************************)
(* safeio.WriteFileWithBackup, one file-system call per step               *)
(***************************************************************************)
WriteIdle ==
    /\ pc = "idle"
    /\ absPath = << >> /\ content = << >> /\ existing = << >>
    /\ backupPath = << >> /\ err = ""
    /\ prior = NoEntry /\ backupFailed = FALSE
    /\ treeAtCall = fs

WriteInit ==
    /\ fs \in InitialTrees
    /\ WriteIdle
    /\ okRun = << >> /\ okCount = 0 /\ freshRun = FALSE

history == <<okRun, okCount, freshRun>>

\* line 56-59: the call; an empty absPath is refused at once
WFB_Call ==
    /\ pc = "idle"
    /\ \E p \in {TargetPath, << >>}, c \in Contents :
         /\ absPath' = p
         /\ content' = c
         /\ prior' = IF p = << >> THEN NoEntry ELSE fs[p]
         /\ treeAtCall' = fs
         /\ IF p = << >>
              THEN pc' = "done" /\ err' = "absPath is empty"
              ELSE pc' = "stat" /\ err' = ""
    /\ UNCHANGED <<fs, existing, backupPath, backupFailed, history>>
    /\ UNCHANGED notWrite

\* line 61-62
WFB_Stat ==
    /\ pc = "stat"
    /\ IF StatRegular(fs, absPath)
         THEN backupPath' = absPath \o BackupSuffix /\ pc' = "read"
         ELSE backupPath' = backupPath /\ pc' = "mkdir"
    /\ UNCHANGED <<fs, absPath, content, existing, err, prior, backupFailed, history, treeAtCall>>
    /\ UNCHANGED notWrite

\* line 63-66: os.ReadFile, which may fail
WFB_ReadFile ==
    /\ pc = "read"
    /\ \E ok \in BOOLEAN :
         IF ok
           THEN /\ existing' = fs[absPath].data
                /\ pc' = "backup_open"
                /\ UNCHANGED <<backupPath, err>>
           ELSE /\ existing' = existing
                /\ backupPath' = << >>
                /\ err' = "failed to read existing file for backup"
                /\ pc' = "done"
    /\ UNCHANGED <<fs, absPath, content, prior, backupFailed, history, treeAtCall>>
    /\ UNCHANGED notWrite

\* line 68: where the call goes when the backup write fails
PcIgnoringBackupError == "mkdir"
PcAfterBackupError == "done"

\* line 67: the bytes written to the backup
BackupOfNewContent(old, new) == new
BackupData(old, new) == old

\* line 67, first half: os.WriteFile opens the backup and truncates it
WFB_BackupOpen ==
    /\ pc = "backup_open"
    /\ \E ok \in BOOLEAN :
         IF ok /\ CanOpenForWrite(fs, backupPath)
           THEN /\ fs' = [fs EXCEPT ![backupPath] = File(<< >>)]
                /\ pc' = "backup_write"
                /\ UNCHANGED <<backupPath, err, backupFailed>>
           ELSE /\ fs' = fs
                /\ backupFailed' = TRUE
                /\ backupPath' = << >>
                /\ err' = "failed to write backup"
                /\ pc' = PcAfterBackupError
    /\ UNCHANGED <<absPath, content, existing, prior, history, treeAtCall>>
    /\ UNCHANGED notWrite

\* line 67, second half: the bytes are written and the file closed
WFB_BackupWrite ==
    /\ pc = "backup_write"
    /\ \E ok \in BOOLEAN, written \in Prefixes(BackupData(existing, content)) :
         /\ fs' = [fs EXCEPT ![absPath \o BackupSuffix] = File(written)]
         /\ IF ok /\ written = BackupData(existing, content)
              THEN /\ pc' = "mkdir"
                   /\ UNCHANGED <<backupPath, err, backupFailed>>
              ELSE /\ backupFailed' = TRUE
                   /\ backupPath' = << >>
                   /\ err' = "failed to write backup"
                   /\ pc' = PcAfterBackupError
    /\ UNCHANGED <<absPath, content, existing, prior, history, treeAtCall>>
    /\ UNCHANGED notWrite

\* line 72-74
WFB_MkdirAll ==
    /\ pc = "mkdir"
    /\ \E mkdirOk \in BOOLEAN :
         LET made == MkdirAll(fs, Dir(absPath), mkdirOk) IN
         /\ fs' = made.fs
         /\ IF made.ok
              THEN pc' = "open" /\ err' = err
              ELSE pc' = "done" /\ err' = "failed to create directories"
    /\ UNCHANGED <<absPath, content, existing, backupPath, prior, backupFailed, history, treeAtCall>>
    /\ UNCHANGED notWrite

\* line 76, first half: os.WriteFile opens absPath and truncates it
WFB_Open ==
    /\ pc = "open"
    /\ \E ok \in BOOLEAN :
         IF ok /\ CanOpenForWrite(fs, absPath)
           THEN /\ fs' = [fs EXCEPT ![absPath] = File(<< >>)]
                /\ pc' = "write"
                /\ err' = err
           ELSE /\ fs' = fs
                /\ err' = "failed to write file"
                /\ pc' = "done"
    /\ UNCHANGED <<absPath, content, existing, backupPath, prior, backupFailed, history, treeAtCall>>
    /\ UNCHANGED notWrite

\* line 76-80: the new bytes are written and the file closed
WFB_Write ==
    /\ pc = "write"
    /\ \E ok \in BOOLEAN, written \in Prefixes(content) :
         /\ fs' = [fs EXCEPT ![absPath] = File(written)]
         /\ err' = IF ok /\ written = content THEN "" ELSE "failed to write file"
    /\ pc' = "done"
    /\ UNCHANGED <<absPath, content, existing, backupPath, prior, backupFailed, history, treeAtCall>>
    /\ UNCHANGED notWrite

\* the call returns (backupPath, err) to its caller
WFB_Return ==
    /\ pc = "done"
    /\ pc' = "idle"
    /\ absPath' = << >> /\ content' = << >> /\ existing' = << >>
    /\ backupPath' = << >> /\ err' = ""
    /\ prior' = NoEntry /\ backupFailed' = FALSE
    /\ treeAtCall' = fs
    /\ IF absPath = << >> THEN UNCHANGED history
       ELSE IF err # "" THEN okRun' = << >> /\ okCount' = 0 /\ freshRun' = FALSE
       ELSE /\ okRun' = IF Len(okRun) = 2 THEN <<okRun[2], content>>
                        ELSE Append(okRun, content)
            /\ okCount' = IF okCount < MaxRun THEN okCount + 1 ELSE okCount
            /\ freshRun' = IF okCount = 0 THEN prior.kind = "none" ELSE freshRun
    /\ UNCHANGED fs
    /\ UNCHANGED notWrite

WriteNext ==
    \/ WFB_Call \/ WFB_Stat \/ WFB_ReadFile \/ WFB_BackupOpen \/ WFB_BackupWrite
    \/ WFB_MkdirAll \/ WFB_Open \/ WFB_Write \/ WFB_Return

\* the writer at rest while another component is exercised
WriteParked ==
    /\ fs = [p \in FsPaths |-> IF p \in {<<Sep>>, ProjectDir} THEN DirEntry ELSE NoEntry]
    /\ WriteIdle
    /\ okRun = << >> /\ okCount = 0 /\ freshRun = FALSE

(***************************************************************************)
(* ollama.Client                                                           *)
(***************************************************************************)
\* one line of a response body: empty, not JSON, or a JSON object, decoded
\* by its fields "response", "done" and "models" (absent fields are zero);
\* long marks a line beyond bufio.Scanner's token limit
Line(k, r, d, m, l) == [kind |-> k, response |-> r, done |-> d, models |-> m, long |-> l]
EmptyLine == Line("empty", "", FALSE, << >>, FALSE)
BadLine == Line("bad", "", FALSE, << >>, FALSE)
Frame(r, d) == Line("json", r, d, << >>, FALSE)
LongFrame(r, d) == Line("json", r, d, << >>, TRUE)
TagsLine == Line("json", "", FALSE, <<"m1", "m2">>, FALSE)

Fragments == {"", "a", "b"}
Lines ==
    {EmptyLine, BadLine, TagsLine, LongFrame("", TRUE)}
        \cup {Frame(r, d) : r \in Fragments, d \in BOOLEAN}
Bodies == SeqsUpTo(Lines, MaxLines)

StatusOK == 200
Statuses == {StatusOK, 204, 404}
\* errors a callback may return
CallbackErrors == {"callback error 1", "callback error 2"}

\* client.go 31-38: the fields of a request that tell the calls apart, with
\* the method and path it is sent to
Request(method, path, stream, format) ==
    [method |-> method, path |-> path, stream |-> stream, format |-> format]
NoRequest == Request("", "", FALSE, "")

\* client.go 54-61 and 83-87 (GenerateJSON), 228-234 and 256-260
\* (GenerateWithModel), 202-203 (ListModels, also behind CheckConnection)
RequestAlwaysStreaming(op) == Request("POST", "/api/generate", TRUE, "")
RequestOf(op) ==
    IF op = "GenerateJSON" THEN Request("POST", "/api/generate", FALSE, "json")
    ELSE IF op = "GenerateWithModel" THEN Request("POST", "/api/generate", TRUE, "")
    ELSE Request("GET", "/api/tags", FALSE, "")

NoResult == [err |-> "pending", text |-> "", models |-> << >>]
Failed(why) == [err |-> why, text |-> "", models |-> << >>]
Succeeded(text, models) == [err |-> "", text |-> text, models |-> models]

ClientIdle ==
    /\ status = 0 /\ call = "none" /\ cpc = "idle"
    /\ next = 1 /\ scanErr = "" /\ genResp = EmptyLine
    /\ delivered = << >> /\ result = NoResult
    /\ respOpen = FALSE /\ requests = 0 /\ cbErr = "" /\ active = 0
    /\ sentRequest = NoRequest

ClientInit == body \in Bodies /\ ClientIdle

ClientParked == body = << >> /\ ClientIdle

Streaming == call = "GenerateWithModel"

\* a caller starts one of the client's operations
ClientCall ==
    /\ cpc = "idle"
    /\ call' \in {"GenerateWithModel", "GenerateJSON", "ListModels", "CheckConnection"}
    /\ cpc' = "send"
    /\ UNCHANGED <<body, status, next, scanErr, genResp, delivered, result,
                   respOpen, requests, cbErr, active>>
    /\ UNCHANGED sentRequest
    /\ UNCHANGED notClient

\* client.go 89-92, 203-206, 263-266: where the call goes when the request
\* could not be sent
PcRetryingSend == "send"
PcAfterSendError == "returned"

\* client.go 83-93, 203-207, 256-267: the request is built and sent once;
\* with a response in hand its body is closed when the call returns
ClientSend ==
    /\ cpc = "send"
    /\ \E outcome \in {"bad url", "refused", "answered"}, answer \in Statuses :
         IF outcome = "bad url"
           THEN /\ result' = Failed("failed to create request")
                /\ cpc' = "returned"
                /\ UNCHANGED <<status, respOpen, requests, sentRequest>>
         ELSE IF outcome = "refused"
           THEN /\ result' = Failed("failed to send request")
                /\ requests' = requests + 1
                /\ sentRequest' = RequestOf(call)
                /\ cpc' = PcAfterSendError
                /\ UNCHANGED <<status, respOpen>>
         ELSE /\ status' = answer
              /\ requests' = requests + 1
              /\ sentRequest' = RequestOf(call)
              /\ respOpen' = TRUE
              /\ result' = result
              /\ cpc' = IF call = "GenerateJSON" THEN "decode" ELSE "check_status"
    /\ UNCHANGED <<body, call, next, scanErr, genResp, delivered, cbErr, active>>
    /\ UNCHANGED notClient

\* client.go 209-211, 269-272
ClientCheckStatus ==
    /\ cpc = "check_status"
    /\ IF status # StatusOK
         THEN /\ result' = Failed(IF Streaming THEN "ollama API error"
                                  ELSE "ollama returned status")
              /\ cpc' = "return"
         ELSE /\ result' = result
              /\ cpc' = IF Streaming THEN "scan" ELSE "decode"
    /\ UNCHANGED <<body, status, call, next, scanErr, genResp, delivered,
                   respOpen, requests, cbErr, active>>
    /\ UNCHANGED sentRequest
    /\ UNCHANGED notClient

\* the first JSON value of the body, as json.Decoder finds it past blank
\* lines: its index, or 0 at the end of the body
RECURSIVE FirstValue(_, _)
FirstValue(lines, i) ==
    IF i > Len(lines) THEN 0
    ELSE IF lines[i].kind = "empty" THEN FirstValue(lines, i + 1)
    ELSE i

\* client.go 95-107 and 213-218: one JSON value is decoded from the body
ClientDecode ==
    /\ cpc = "decode"
    /\ LET i == FirstValue(body, 1) IN
       IF i = 0 \/ body[i].kind = "bad"
         THEN result' = Failed(IF call = "GenerateJSON" THEN "failed to decode response"
                               ELSE "failed to decode models response")
       ELSE IF call = "GenerateJSON" THEN result' = Succeeded(body[i].response, << >>)
       ELSE IF call = "ListModels" THEN result' = Succeeded("", body[i].models)
       ELSE result' = Succeeded("", << >>)
    /\ cpc' = "return"
    /\ UNCHANGED <<body, status, call, next, scanErr, genResp, delivered,
                   respOpen, requests, cbErr, active>>
    /\ UNCHANGED sentRequest
    /\ UNCHANGED notClient

\* client.go 277-281: scanner.Scan; it stops at the end of the body, on a
\* read error, and on a line longer than its buffer allows; an empty line
\* is skipped
ClientScan ==
    /\ cpc = "scan"
    /\ \E readOk \in BOOLEAN :
         IF ~readOk
           THEN /\ scanErr' = "read error"
                /\ cpc' = "scan_err"
                /\ UNCHANGED <<next, genResp>>
         ELSE IF next > Len(body)
           THEN /\ cpc' = "scan_err"
                /\ UNCHANGED <<next, scanErr, genResp>>
         ELSE IF body[next].long
           THEN /\ scanErr' = "token too long"
                /\ cpc' = "scan_err"
                /\ UNCHANGED <<next, genResp>>
         ELSE /\ next' = next + 1
              /\ cpc' = IF body[next].kind = "empty" THEN "scan" ELSE "unmarshal"
              /\ UNCHANGED <<scanErr, genResp>>
    /\ UNCHANGED <<body, status, call, delivered, result, respOpen, requests, cbErr, active>>
    /\ UNCHANGED sentRequest
    /\ UNCHANGED notClient

\* where the loop is while the callback runs (line 292), and where it goes
\* after a line that is not JSON (line 285), after a callback error (line
\* 293) and after a frame with done (line 304)
PcReadingAhead == "scan"
PcInCallback == "in_callback"
PcSkippingBadLine == "scan"
PcAfterParseError == "return"
PcIgnoringCallbackError == "check_done"
PcAfterCallbackError == "return"
PcIgnoringDone == "scan"
PcAfterDone == "scan_err"

\* client.go 283-286: json.Unmarshal of the line just scanned
ClientUnmarshal ==
    /\ cpc = "unmarshal"
    /\ IF body[next - 1].kind = "bad"
         THEN /\ result' = Failed("failed to parse response")
              /\ cpc' = PcAfterParseError
              /\ genResp' = genResp
         ELSE /\ genResp' = body[next - 1]
              /\ cpc' = "frame"
              /\ result' = result
    /\ UNCHANGED <<body, status, call, next, scanErr, delivered, respOpen, requests, cbErr, active>>
    /\ UNCHANGED sentRequest
    /\ UNCHANGED notClient

\* client.go 288-292: the callback is entered with a non-empty fragment
ClientFrame ==
    /\ cpc = "frame"
    /\ IF genResp.response # ""
         THEN /\ delivered' = Append(delivered, genResp.response)
              /\ active' = active + 1
              /\ cpc' = PcInCallback
         ELSE /\ delivered' = delivered
              /\ active' = active
              /\ cpc' = "check_done"
    /\ UNCHANGED <<body, status, call, next, scanErr, genResp, result, respOpen,
                   requests, cbErr>>
    /\ UNCHANGED sentRequest
    /\ UNCHANGED notClient

\* client.go 292-294: the callback returns nil or an error
ClientCallbackReturn ==
    /\ cpc = "in_callback"
    /\ \E e \in {""} \cup CallbackErrors :
         IF e = ""
           THEN /\ cpc' = "check_done"
                /\ UNCHANGED <<result, cbErr>>
           ELSE /\ result' = Failed(e)
                /\ cbErr' = e
                /\ cpc' = PcAfterCallbackError
    /\ active' = active - 1
    /\ UNCHANGED <<body, status, call, next, scanErr, genResp, delivered, respOpen, requests>>
    /\ UNCHANGED sentRequest
    /\ UNCHANGED notClient

\* client.go 297-305
ClientCheckDone ==
    /\ cpc = "check_done"
    /\ cpc' = IF genResp.done THEN PcAfterDone ELSE "scan"
    /\ UNCHANGED <<body, status, call, next, scanErr, genResp, delivered, result,
                   respOpen, requests, cbErr, active>>
    /\ UNCHANGED sentRequest
    /\ UNCHANGED notClient

\* a faulty variant of ResultAtLoopEnd: a stream whose last frame is not done is
\* an error
ResultRequiringDone(e, lastFrame) ==
    IF e # "" THEN Failed("error reading response")
    ELSE IF ~lastFrame.done THEN Failed("unexpected end of stream")
    ELSE Succeeded("", << >>)
\* client.go 308-312: after the loop only scanner.Err() is looked at, which
\* is nil at the end of the body; the last frame's done is not
ResultAtLoopEnd(e, lastFrame) ==
    IF e # "" THEN Failed("error reading response")
    ELSE Succeeded("", << >>)

\* client.go 308-312
ClientScanErr ==
    /\ cpc = "scan_err"
    /\ result' = ResultAtLoopEnd(scanErr, genResp)
    /\ cpc' = "return"
    /\ UNCHANGED <<body, status, call, next, scanErr, genResp, delivered,
                   respOpen, requests, cbErr, active>>
    /\ UNCHANGED sentRequest
    /\ UNCHANGED notClient

\* client.go 93, 207, 267: defer resp.Body.Close() runs when the call returns
BodyLeftOpen == respOpen
BodyOpenAfterReturn == FALSE

\* the deferred resp.Body.Close() runs and the call returns
ClientReturn ==
    /\ cpc = "return"
    /\ respOpen' = BodyOpenAfterReturn
    /\ cpc' = "returned"
    /\ UNCHANGED <<body, status, call, next, scanErr, genResp, delivered, result,
                   requests, cbErr, active>>
    /\ UNCHANGED sentRequest
    /\ UNCHANGED notClient

ClientNext ==
    \/ ClientCall \/ ClientSend \/ ClientCheckStatus \/ ClientDecode
    \/ ClientScan \/ ClientUnmarshal \/ ClientFrame \/ ClientCallbackReturn
    \/ ClientCheckDone \/ ClientScanErr \/ ClientReturn

(***************************************************************************)
(* modes: EditMode.ProcessInput and AgentMode (Run's loop body and         *)
(* ProcessInput)                                                           *)
(***************************************************************************)
\* sess.ProjectRoot is the working directory the program was started in
ProjectRoot == Cwd
\* words of the user's input that end in a known extension
Words == { <<"f">>, <<"d", Sep, ".", Sep, "f">>, <<".", ".", Sep, "x">>, <<Sep, "e">> }
\* "filename" fields of the model's structured reply
ModelNames == { <<"f">>, <<"d", Sep, "g">>, <<".", ".", Sep, "x">>, <<Sep, "e">> }
Replies == SeqsUpTo(ModelNames, MaxFiles)

\* the user's input, as the words of it that end in a known extension
Inputs == SeqsUpTo(Words, MaxWords)

\* cmd.go 434-448: the cleaned first word with a known extension, or ""
detectFileInInput(input) == IF input = << >> THEN << >> ELSE Clean(Head(input))

\* cmd.go 450-456
fileExists(onDisk, path) == path \in onDisk

\* a call that writes a file named by the user or by the model
WriteOf(name, by) == [op |-> "write", name |-> name, by |-> by]
\* no "Created %d file(s) successfully" has been reported
NoReport == -1
\* a call that reads a file
ReadOf(name, by) == [op |-> "read", name |-> name, by |-> by]

\* cmd.go 262: the files whose contents are appended to the input: each
\* file the input names that lies inside the project root and can be read
RECURSIVE ReadFilesFromInputWithRoot(_, _, _)
ReadFilesFromInputWithRoot(input, projectRoot, onDisk) ==
    IF input = << >> THEN << >>
    ELSE LET r == ResolveWithinRoot(projectRoot, Head(input), TRUE)
             rest == ReadFilesFromInputWithRoot(Tail(input), projectRoot, onDisk)
         IN IF r.err = "" /\ fileExists(onDisk, r.absPath)
              THEN <<ReadOf(r.absPath, "ReadFilesFromInputWithRoot")>> \o rest
              ELSE rest

ModesIdle ==
    /\ History = << >> /\ lastEditedFile = << >>
    /\ mode = "none" /\ mpc = "idle"
    /\ fileToEdit = << >> /\ editAbs = << >> /\ files = << >> /\ modeErr = ""
    /\ accepted = {} /\ fsLog = << >> /\ turns = 0 /\ logAtCall = 0
    /\ nCreated = 0 /\ nFailed = 0 /\ reportedCreated = NoReport
    /\ named = << >> /\ resultFilename = << >> /\ diskAtCall = {}

ModesInit ==
    /\ disk \in { {}, {Join(ProjectRoot, <<"f">>)},
                  {Join(ProjectRoot, <<"f">>), Join(ProjectRoot, <<"d", Sep, "f">>)} }
    /\ ModesIdle

ModesParked == disk = {} /\ ModesIdle

\* cmd.go 260-271: the files the input names are read for the prompt, the
\* user's message is recorded and the file to edit is the one the input
\* names, else the session's last edited file
EditInput ==
    /\ mpc = "idle"
    /\ turns < MaxTurns
    /\ turns' = turns + 1
    /\ mode' = "edit"
    /\ modeErr' = ""
    /\ History' = Append(History, "user")
    /\ logAtCall' = Len(fsLog)
    /\ \E input \in Inputs :
         LET detected == detectFileInInput(input) IN
         /\ fsLog' = fsLog \o ReadFilesFromInputWithRoot(input, ProjectRoot, disk)
         /\ fileToEdit' = IF detected = << >> THEN lastEditedFile ELSE detected
         /\ lastEditedFile' = IF detected = << >> THEN lastEditedFile ELSE detected
    /\ named' = fileToEdit' /\ resultFilename' = << >> /\ diskAtCall' = disk
    /\ mpc' = IF fileToEdit' = << >> THEN "suggest" ELSE "guard"
    /\ UNCHANGED <<editAbs, files, disk, accepted>>
    /\ UNCHANGED <<nCreated, nFailed, reportedCreated>>
    /\ UNCHANGED notModes

\* cmd.go 274-278
EditGuard ==
    /\ mpc = "guard"
    /\ \E wdOk \in BOOLEAN :
         LET r == ResolveWithinRoot(ProjectRoot, fileToEdit, wdOk) IN
         IF r.err # ""
           THEN /\ modeErr' = "refusing to edit"
                /\ mpc' = "idle"
                /\ UNCHANGED <<fileToEdit, editAbs, accepted>>
           ELSE /\ editAbs' = r.absPath
                /\ fileToEdit' = r.relPath
                /\ accepted' = accepted \cup {r.absPath}
                /\ mpc' = "exists"
                /\ UNCHANGED modeErr
    /\ UNCHANGED <<History, lastEditedFile, mode, files, disk, fsLog, turns,
                   logAtCall>>
    /\ UNCHANGED <<nCreated, nFailed, reportedCreated>>
    /\ UNCHANGED <<named, resultFilename, diskAtCall>>
    /\ UNCHANGED notModes

\* cmd.go 279-287: a missing file falls back to suggestions; the file's
\* current content is read
EditReadCurrent ==
    /\ mpc = "exists"
    /\ IF ~fileExists(disk, editAbs)
         THEN mpc' = "suggest" /\ UNCHANGED <<modeErr, fsLog>>
         ELSE \E readOk \in BOOLEAN :
                IF readOk
                  THEN /\ mpc' = "generate"
                       /\ fsLog' = Append(fsLog, ReadOf(editAbs, "os.ReadFile"))
                       /\ UNCHANGED modeErr
                  ELSE /\ mpc' = "idle"
                       /\ modeErr' = "error reading file"
                       /\ UNCHANGED fsLog
    /\ UNCHANGED <<History, lastEditedFile, mode, fileToEdit, editAbs, files,
                   disk, accepted, turns, logAtCall>>
    /\ UNCHANGED <<nCreated, nFailed, reportedCreated>>
    /\ UNCHANGED <<named, resultFilename, diskAtCall>>
    /\ UNCHANGED notModes

\* a faulty variant of PcAfterEditError: the write goes ahead
PcWritingAnyway == "write"
\* cmd.go 312-314 and 323-325: an error of GenerateJSON or of json.Unmarshal
\* is returned at once
PcAfterEditError == "idle"

\* cmd.go 311-325: client.GenerateJSON and json.Unmarshal of its answer
\* into an EditResult, whose Filename is whatever the model wrote
EditGenerate ==
    /\ mpc = "generate"
    /\ \E outcome \in {"error generating JSON", "error parsing JSON response", ""} :
         /\ modeErr' = outcome
         /\ IF outcome = ""
              THEN mpc' = "write" /\ resultFilename' \in ModelNames
              ELSE mpc' = PcAfterEditError /\ UNCHANGED resultFilename
    /\ UNCHANGED <<History, lastEditedFile, mode, fileToEdit, editAbs, files,
                   disk, accepted, fsLog, turns, logAtCall>>
    /\ UNCHANGED <<nCreated, nFailed, reportedCreated>>
    /\ UNCHANGED <<named, diskAtCall>>
    /\ UNCHANGED notModes

\* a faulty variant of EditTarget: the file the model's reply names is written
EditTargetFromReply(abs, filename) == Join(ProjectRoot, filename)
\* cmd.go 331: the path handed to safeio.WriteFileWithBackup is absPath, the
\* path the guard returned; result.Filename is only printed (328)
EditTarget(abs, filename) == abs

\* cmd.go 331-352: safeio.WriteFileWithBackup(absPath, ...) on a file that
\* exists: without its backup the call fails; then the session records the
\* edit
EditWrite ==
    /\ mpc = "write"
    /\ LET target == EditTarget(editAbs, resultFilename) IN
       /\ fsLog' = Append(fsLog, WriteOf(target, "safeio.WriteFileWithBackup"))
       /\ \E backup \in {"not opened", "not written", "written"}, writeOk \in BOOLEAN :
         /\ disk' = IF backup = "not opened" THEN disk
                    ELSE disk \cup {target \o BackupSuffix}
         /\ IF backup = "written" /\ writeOk
              THEN /\ lastEditedFile' = fileToEdit
                   /\ History' = Append(History, "assistant")
                   /\ UNCHANGED modeErr
              ELSE /\ modeErr' = "error writing file"
                   /\ UNCHANGED <<History, lastEditedFile>>
    /\ mpc' = "idle"
    /\ UNCHANGED <<mode, fileToEdit, editAbs, files, accepted, turns, logAtCall>>
    /\ UNCHANGED <<nCreated, nFailed, reportedCreated>>
    /\ UNCHANGED <<named, resultFilename, diskAtCall>>
    /\ UNCHANGED notModes

\* a faulty variant of Recorded: what was streamed before the error is recorded
RecordedAnyway(hist, ok) == Append(hist, "assistant")
\* plan.go 109-119, cmd.go 381-392, agent.go 187-199, prompt.go 236-265:
\* an error of the streamed generation returns before sess.AddMessage
\* ("assistant", ...), so the reply is recorded only when there was none
Recorded(hist, ok) == IF ok THEN Append(hist, "assistant") ELSE hist

\* cmd.go 355-396: suggestions are streamed; nothing is written
EditSuggest ==
    /\ mpc = "suggest"
    /\ \E ok \in BOOLEAN :
         /\ History' = Recorded(History, ok)
         /\ modeErr' = IF ok THEN modeErr ELSE "error generating response"
    /\ mpc' = "idle"
    /\ UNCHANGED <<lastEditedFile, mode, fileToEdit, editAbs, files,
                   disk, accepted, fsLog, turns, logAtCall>>
    /\ UNCHANGED <<nCreated, nFailed, reportedCreated>>
    /\ UNCHANGED <<named, resultFilename, diskAtCall>>
    /\ UNCHANGED notModes

\* agent.go 236 and 66-83: the user's message is recorded and the input is
\* tested for a file creation request
AgentInput ==
    /\ mpc = "idle"
    /\ turns < MaxTurns
    /\ turns' = turns + 1
    /\ mode' = "agent"
    /\ modeErr' = ""
    /\ History' = Append(History, "user")
    /\ \E needsFileCreation \in BOOLEAN :
         mpc' = IF needsFileCreation THEN "agent_generate" ELSE "agent_stream"
    /\ logAtCall' = Len(fsLog)
    /\ UNCHANGED <<lastEditedFile, fileToEdit, editAbs, files, disk, accepted, fsLog>>
    /\ nCreated' = 0 /\ nFailed' = 0 /\ reportedCreated' = NoReport
    /\ named' = << >> /\ resultFilename' = << >> /\ diskAtCall' = disk
    /\ UNCHANGED notModes

\* agent.go 103-133: client.GenerateJSON and json.Unmarshal of its answer,
\* as an array or as one object
AgentGenerate ==
    /\ mpc = "agent_generate"
    /\ \E outcome \in {"error generating JSON", "error parsing JSON response", ""} :
         /\ modeErr' = outcome
         /\ IF outcome = ""
              THEN mpc' = "agent_create" /\ files' \in Replies
              ELSE mpc' = "idle" /\ UNCHANGED files
    /\ UNCHANGED <<History, lastEditedFile, mode, fileToEdit, editAbs,
                   disk, accepted, fsLog, turns, logAtCall>>
    /\ UNCHANGED <<nCreated, nFailed, reportedCreated>>
    /\ UNCHANGED <<named, resultFilename, diskAtCall>>
    /\ UNCHANGED notModes

\* agent.go 135-153: one round of the loop over the files: os.MkdirAll of
\* the name's directory, then os.WriteFile of the name as the model gave
\* it; a failure is printed and the loop goes on (nCreated and nFailed
\* count the rounds that created a file and those that failed)
AgentCreateFile ==
    /\ mpc = "agent_create"
    /\ files # << >>
    /\ LET file == Head(files) IN
       \E mkdirOk \in BOOLEAN, writeOk \in BOOLEAN :
         IF Dir(file) # Dot /\ ~mkdirOk
           THEN /\ UNCHANGED <<disk, fsLog, nCreated>>
                /\ nFailed' = nFailed + 1
           ELSE /\ fsLog' = Append(fsLog, WriteOf(file, "os.WriteFile"))
                /\ disk' = IF writeOk THEN disk \cup {Abs(file, TRUE).path} ELSE disk
                /\ nCreated' = IF writeOk THEN nCreated + 1 ELSE nCreated
                /\ nFailed' = IF writeOk THEN nFailed ELSE nFailed + 1
    /\ files' = Tail(files)
    /\ UNCHANGED <<History, lastEditedFile, mode, mpc, fileToEdit, editAbs, modeErr,
                   accepted, turns, logAtCall>>
    /\ UNCHANGED reportedCreated
    /\ UNCHANGED <<named, resultFilename, diskAtCall>>
    /\ UNCHANGED notModes

\* agent.go 156 and 198-206: after the loop "Created %d file(s)
\* successfully" is reported with len(files), and the reply is recorded
AgentCreated ==
    /\ mpc = "agent_create"
    /\ files = << >>
    /\ History' = Append(History, "assistant")
    /\ mpc' = "idle"
    /\ UNCHANGED <<lastEditedFile, mode, fileToEdit, editAbs, files, modeErr,
                   disk, accepted, fsLog, turns, logAtCall>>
    /\ reportedCreated' = nCreated + nFailed
    /\ UNCHANGED <<nCreated, nFailed>>
    /\ UNCHANGED <<named, resultFilename, diskAtCall>>
    /\ UNCHANGED notModes

\* agent.go 158-206: any other request is answered by a streamed reply
AgentStream ==
    /\ mpc = "agent_stream"
    /\ \E ok \in BOOLEAN :
         /\ History' = Recorded(History, ok)
         /\ modeErr' = IF ok THEN modeErr ELSE "error generating response"
    /\ mpc' = "idle"
    /\ UNCHANGED <<lastEditedFile, mode, fileToEdit, editAbs, files,
                   disk, accepted, fsLog, turns, logAtCall>>
    /\ UNCHANGED <<nCreated, nFailed, reportedCreated>>
    /\ UNCHANGED <<named, resultFilename, diskAtCall>>
    /\ UNCHANGED notModes

\* ask.go 158-194: each file the input names is read where it is, relative
\* to the working directory
RECURSIVE ReadFilesFromInput(_, _)
ReadFilesFromInput(input, onDisk) ==
    IF input = << >> THEN << >>
    ELSE LET path == Abs(Head(input), TRUE).path
             rest == ReadFilesFromInput(Tail(input), onDisk)
         IN IF fileExists(onDisk, path)
              THEN <<ReadOf(path, "ReadFilesFromInput")>> \o rest
              ELSE rest

\* plan.go 76-83: PlanMode.ProcessInput reads the files the input names
\* and records the user's message
PlanInput ==
    /\ mpc = "idle"
    /\ turns < MaxTurns
    /\ turns' = turns + 1
    /\ mode' = "plan"
    /\ modeErr' = ""
    /\ \E input \in Inputs :
         fsLog' = fsLog \o ReadFilesFromInputWithRoot(input, ProjectRoot, disk)
    /\ History' = Append(History, "user")
    /\ logAtCall' = Len(fsLog)
    /\ mpc' = "plan_generate"
    /\ named' = << >> /\ resultFilename' = << >> /\ diskAtCall' = disk
    /\ UNCHANGED <<lastEditedFile, fileToEdit, editAbs, files, disk, accepted>>
    /\ UNCHANGED <<nCreated, nFailed, reportedCreated>>
    /\ UNCHANGED notModes

\* plan.go 90-124: the reply is streamed into fullResponse; an error
\* returns it, else the reply is rendered and recorded
PlanGenerate ==
    /\ mpc = "plan_generate"
    /\ \E ok \in BOOLEAN :
         /\ History' = Recorded(History, ok)
         /\ modeErr' = IF ok THEN modeErr ELSE "error generating response"
    /\ mpc' = "idle"
    /\ UNCHANGED <<lastEditedFile, mode, fileToEdit, editAbs, files,
                   disk, accepted, fsLog, turns, logAtCall>>
    /\ UNCHANGED <<nCreated, nFailed, reportedCreated>>
    /\ UNCHANGED <<named, resultFilename, diskAtCall>>
    /\ UNCHANGED notModes

\* prompt.go 164-168: executeQuickCommand reads the files the prompt names
\* and records the user's message
QuickInput ==
    /\ mpc = "idle"
    /\ turns < MaxTurns
    /\ turns' = turns + 1
    /\ mode' = "quick"
    /\ modeErr' = ""
    /\ \E input \in Inputs :
         fsLog' = fsLog \o ReadFilesFromInput(input, disk)
    /\ History' = Append(History, "user")
    /\ logAtCall' = Len(fsLog)
    /\ mpc' = "quick_generate"
    /\ named' = << >> /\ resultFilename' = << >> /\ diskAtCall' = disk
    /\ UNCHANGED <<lastEditedFile, fileToEdit, editAbs, files, disk, accepted>>
    /\ UNCHANGED <<nCreated, nFailed, reportedCreated>>
    /\ UNCHANGED notModes

\* prompt.go 213-272: the reply is streamed into fullResponse; an error
\* returns it, else the reply is printed and recorded
QuickGenerate ==
    /\ mpc = "quick_generate"
    /\ \E ok \in BOOLEAN :
         /\ History' = Recorded(History, ok)
         /\ modeErr' = IF ok THEN modeErr ELSE "error generating response"
    /\ mpc' = "idle"
    /\ UNCHANGED <<lastEditedFile, mode, fileToEdit, editAbs, files,
                   disk, accepted, fsLog, turns, logAtCall>>
    /\ UNCHANGED <<nCreated, nFailed, reportedCreated>>
    /\ UNCHANGED <<named, resultFilename, diskAtCall>>
    /\ UNCHANGED notModes

ModesNext ==
    \/ EditInput \/ EditGuard \/ EditReadCurrent \/ EditGenerate \/ EditWrite
    \/ EditSuggest
    \/ AgentInput \/ AgentGenerate \/ AgentCreateFile \/ AgentCreated \/ AgentStream
    \/ PlanInput \/ PlanGenerate \/ QuickInput \/ QuickGenerate

(***************************************************************************)
(* modes.BuildConversationContext                                          *)
(***************************************************************************)
Message(role, text) == [role |-> role, content |-> text]
Roles == {"user", "assistant"}
Texts == {"hi", "hello"}
Enhancements == {"hi [file: x]", "hi"}
Histories == SeqsUpTo({Message(r, t) : r \in Roles, t \in Texts}, MaxHistory)

\* context.go 18: the message whose text is replaced, among the user
\* messages
SubstitutedLastUser(hist, i) == \A j \in (i + 1)..Len(hist) : hist[j].role # "user"
SubstitutedEveryUser(hist, i) == TRUE
Substituted(hist, i) == i = Len(hist)

\* context.go 17 and 25
RoleAsLabel(role) == role
RoleLabel(role) == IF role = "user" THEN "User: " ELSE "Assistant: "

\* context.go 15-28: what one message adds to the builder
Rendered(hist, i, enhanced) ==
    IF hist[i].role = "user"
      THEN <<RoleLabel("user"),
             IF Substituted(hist, i) THEN enhanced ELSE hist[i].content,
             "\n\n">>
    ELSE IF hist[i].role = "assistant"
      THEN <<RoleLabel("assistant"), hist[i].content, "\n\n">>
    ELSE << >>

\* context.go 14-31: the loop over sess.History, from message i on
RECURSIVE BuildFrom(_, _, _)
BuildFrom(hist, i, enhanced) ==
    IF i > Len(hist) THEN << >>
    ELSE Rendered(hist, i, enhanced) \o BuildFrom(hist, i + 1, enhanced)

\* context.go 12: the builder a call writes to
BuilderOfLastCall == conversation
Builder == << >>

BuildConversationContext(hist, enhanced) == Builder \o BuildFrom(hist, 1, enhanced)

ContextInit ==
    /\ sessHistory \in Histories
    /\ enhancedLastUserMessage \in Enhancements
    /\ conversation = << >>
    /\ built = FALSE
    /\ calls = 0

ContextParked ==
    /\ sessHistory = << >> /\ enhancedLastUserMessage = ""
    /\ conversation = << >> /\ built = FALSE /\ calls = 0

\* a caller assembles the prompt from the session and the enhanced input
BuildContext ==
    /\ calls < MaxCalls
    /\ calls' = calls + 1
    /\ conversation' = BuildConversationContext(sessHistory, enhancedLastUserMessage)
    /\ built' = TRUE
    /\ UNCHANGED <<sessHistory, enhancedLastUserMessage>>
    /\ UNCHANGED notContext

(***************************************************************************)
(* The structured reply of the model, decoded as AgentMode.ProcessInput    *)
(* decodes it                                                              *)
(***************************************************************************)
\* JSON values as encoding/json sees them when the target is a struct with
\* the fields filename and content, or a slice of such structs: text that
\* is not JSON, null, a string, number or boolean, an object (by its two
\* fields, "" when absent) and an array
Value(kind, filename, text, elems) ==
    [kind |-> kind, filename |-> filename, content |-> text, elems |-> elems]
NotJSON == Value("invalid", "", "", << >>)
Null == Value("null", "", "", << >>)
Scalar == Value("scalar", "", "", << >>)
Object(filename, text) == Value("object", filename, text, << >>)
Array(elems) == Value("array", "", "", elems)

Objects == {Object("a.txt", "hi"), Object("b.txt", "yo"), Object("", "")}
Payloads ==
    {NotJSON, Null, Scalar} \cup Objects
        \cup {Array(e) : e \in SeqsUpTo(Objects \cup {Null, Scalar}, MaxElems)}

GeneratedFile(filename, text) == [filename |-> filename, content |-> text]

\* json.Unmarshal into one struct: an object fills it, null leaves it as
\* it is, anything else is an error
FillsStruct(v) == v.kind \in {"object", "null"}

\* agent.go 109-115: json.Unmarshal into the slice: null gives the nil
\* slice, an array one struct per element, an error when an element does
\* not fill a struct
UnmarshalFiles(v) ==
    IF v.kind = "null" THEN [ok |-> TRUE, files |-> << >>]
    ELSE IF v.kind = "array" /\ \A i \in 1..Len(v.elems) : FillsStruct(v.elems[i])
      THEN [ok |-> TRUE,
            files |-> [i \in 1..Len(v.elems) |->
                          GeneratedFile(v.elems[i].filename, v.elems[i].content)]]
    ELSE [ok |-> FALSE, files |-> << >>]

\* agent.go 117-128: json.Unmarshal into the single struct, wrapped in a
\* slice
UnmarshalSingleFile(v) ==
    IF FillsStruct(v)
      THEN [ok |-> TRUE, files |-> <<GeneratedFile(v.filename, v.content)>>]
    ELSE [ok |-> FALSE, files |-> << >>]

NoParseError == [msg |-> "", raw |-> Null]

ParseInit ==
    /\ jsonResponse \in Payloads
    /\ ppc = "array"
    /\ parsedFiles = << >>
    /\ parseErr = NoParseError

ParseParked ==
    /\ jsonResponse = Null
    /\ ppc = "array"
    /\ parsedFiles = << >>
    /\ parseErr = NoParseError

\* agent.go 109-115: the reply is decoded as an array first
ParseAsArray ==
    /\ ppc = "array"
    /\ LET r == UnmarshalFiles(jsonResponse) IN
       IF r.ok THEN parsedFiles' = r.files /\ ppc' = "done"
       ELSE parsedFiles' = parsedFiles /\ ppc' = "object"
    /\ UNCHANGED <<jsonResponse, parseErr>>
    /\ UNCHANGED notParse

\* agent.go 116-128: then as a single object; the error returned carries
\* the reply
ParseAsObject ==
    /\ ppc = "object"
    /\ LET r == UnmarshalSingleFile(jsonResponse) IN
       IF r.ok THEN parsedFiles' = r.files /\ parseErr' = parseErr
       ELSE /\ parsedFiles' = << >>
            /\ parseErr' = [msg |-> "error parsing JSON response", raw |-> jsonResponse]
    /\ ppc' = "done"
    /\ UNCHANGED jsonResponse
    /\ UNCHANGED notParse

ParseNext == ParseAsArray \/ ParseAsObject

(***************************************************************************)
(* ui.Run and ui.RunPrompt: the program from its start to the prompt loop  *)
(***************************************************************************)
\* client.go 201-219: what ListModels returns as its error
ListModelsErrors ==
    {"", "failed to connect to Ollama", "ollama returned status",
     "failed to decode models response"}

\* client.go 222-225: CheckConnection returns the error of ListModels
CheckConnectionAlwaysOk(listModelsErr) == ""
CheckConnection(listModelsErr) == listModelsErr

\* the histories session.Load may find in the session file
LoadedHistories == {<< >>, <<Message("user", "hi"), Message("assistant", "hello")>>}

\* prompt.go 59-137: the lines the prompt tells apart
PromptLines ==
    {"interrupt", "eof", "empty", "quit", "menu", "clear", "unknown command",
     "command with prompt", "command", "plain"}

\* prompt.go 89-98 and 130-132: the history after a line has been read, and
\* before anything is run for it
KeptOnEveryLine(hist, line) == hist
ClearedByPrompt(hist, line) ==
    IF line \in {"clear", "command with prompt", "command"} THEN << >> ELSE hist

\* session.go 45-52
AddMessage(hist, role, text) == Append(hist, Message(role, text))

ProgramIdle ==
    /\ rpc = "start" /\ listErr = "" /\ connErr = "" /\ runErr = ""
    /\ sessionLoaded = FALSE /\ firstRun = FALSE /\ promptsRead = 0
    /\ lastLine = "" /\ inMenu = FALSE /\ sessionHistory = << >>

ProgramInit == ProgramIdle
ProgramParked == ProgramIdle

\* menu.go 123-128: the connection is checked first
RunCheckConnection ==
    /\ rpc = "start"
    /\ \E e \in ListModelsErrors :
         /\ listErr' = e
         /\ connErr' = CheckConnection(e)
    /\ IF connErr' # ""
         THEN runErr' = "failed to connect to Ollama" /\ rpc' = "returned"
         ELSE runErr' = runErr /\ rpc' = "load"
    /\ UNCHANGED <<sessionLoaded, firstRun, promptsRead, lastLine, inMenu, sessionHistory>>
    /\ UNCHANGED notProgram

\* menu.go 130-140: the session is loaded, or a new one made
RunLoadSession ==
    /\ rpc = "load"
    /\ sessionLoaded' = TRUE
    /\ sessionHistory' \in LoadedHistories
    /\ \E modelConfigured \in BOOLEAN :
         rpc' = IF modelConfigured THEN "prompt" ELSE "first run"
    /\ UNCHANGED <<listErr, connErr, runErr, firstRun, promptsRead, lastLine, inMenu>>
    /\ UNCHANGED notProgram

\* menu.go 142-160: without a configured model the user picks one
RunFirstRun ==
    /\ rpc = "first run"
    /\ firstRun' = TRUE
    /\ \E e \in {"", "first run setup failed", "failed to save config"} :
         /\ runErr' = e
         /\ rpc' = IF e = "" THEN "prompt" ELSE "returned"
    /\ UNCHANGED <<listErr, connErr, sessionLoaded, promptsRead, lastLine, inMenu,
                   sessionHistory>>
    /\ UNCHANGED notProgram

\* prompt.go 58-137: one line is read and dispatched; /clear and every mode
\* command empty the history
PromptReadline ==
    /\ rpc = "prompt"
    /\ promptsRead < MaxInputs
    /\ promptsRead' = promptsRead + 1
    /\ \E line \in PromptLines :
         /\ lastLine' = line
         /\ sessionHistory' = ClearedByPrompt(sessionHistory, line)
         /\ rpc' = IF line \in {"interrupt", "eof", "quit"} THEN "returned"
                   ELSE IF line = "menu" THEN "menu"
                   ELSE IF line \in {"command with prompt", "plain"} THEN "quick"
                   ELSE IF line = "command" THEN "mode"
                   ELSE "prompt"
         /\ inMenu' = (line = "menu")
    /\ UNCHANGED <<listErr, connErr, runErr, sessionLoaded, firstRun>>
    /\ UNCHANGED notProgram

\* prompt.go 164-273: executeQuickCommand records the prompt, and the reply
\* when the generation succeeds
ExecuteQuickCommand ==
    /\ rpc = "quick"
    /\ \E text \in Texts, ok \in BOOLEAN :
         sessionHistory' =
            IF ok THEN AddMessage(AddMessage(sessionHistory, "user", text),
                                  "assistant", "hello")
            ELSE AddMessage(sessionHistory, "user", text)
    /\ rpc' = "prompt"
    /\ UNCHANGED <<listErr, connErr, runErr, sessionLoaded, firstRun, promptsRead,
                   lastLine, inMenu>>
    /\ UNCHANGED notProgram

\* menu.go 173-245: the menu runs a mode, changes a setting, or is left
ShowMenu ==
    /\ rpc = "menu"
    /\ \E choice \in {"quit", "mode", "setting", "error"} :
         /\ rpc' = IF choice = "quit" THEN "prompt"
                   ELSE IF choice = "mode" THEN "mode"
                   ELSE IF choice = "setting" THEN "menu"
                   ELSE "returned"
         /\ runErr' = IF choice = "error" THEN "error running menu" ELSE runErr
         /\ inMenu' = (choice \in {"mode", "setting"})
    /\ UNCHANGED <<listErr, connErr, sessionLoaded, firstRun, promptsRead, lastLine,
                   sessionHistory>>
    /\ UNCHANGED notProgram

\* cmd.go 399-432 and 509-580 (the other modes alike): one round of a
\* mode's loop: a line is read; "exit" leaves the mode, a read error ends
\* the program, any other line is recorded with the reply to it
ModeRun ==
    /\ rpc = "mode"
    /\ promptsRead < MaxInputs
    /\ promptsRead' = promptsRead + 1
    /\ \E line \in {"exit", "empty", "read error", "plain"}, text \in Texts, ok \in BOOLEAN :
         /\ lastLine' = line
         /\ rpc' = IF line = "exit" THEN (IF inMenu THEN "menu" ELSE "prompt")
                   ELSE IF line = "read error" THEN "returned"
                   ELSE "mode"
         /\ runErr' = IF line = "read error" THEN "error reading input" ELSE runErr
         /\ sessionHistory' =
               IF line # "plain" THEN sessionHistory
               ELSE IF ok THEN AddMessage(AddMessage(sessionHistory, "user", text),
                                          "assistant", "hello")
               ELSE AddMessage(sessionHistory, "user", text)
    /\ UNCHANGED <<listErr, connErr, sessionLoaded, firstRun, inMenu>>
    /\ UNCHANGED notProgram

ProgramNext ==
    \/ RunCheckConnection
    \/ RunLoadSession
    \/ RunFirstRun
    \/ PromptReadline
    \/ ExecuteQuickCommand
    \/ ShowMenu
    \/ ModeRun

(***************************************************************************)
(* session.Save and session.Load: the session file                         *)
(***************************************************************************)
\* strings are sequences of characters: a plain one, the double quote, the
\* replacement character U+FFFD, and a byte that is not valid UTF-8
Quote == "\""
Backslash == "\\"
Replacement == "U+FFFD"
BadByte == "0xFF"
Chars == {"a", Quote, Replacement, BadByte}
Strings == SeqsUpTo(Chars, MaxStringLen)

\* encoding/json, a string value written: the quote is escaped, a byte that
\* is not valid UTF-8 is written as the escape \\ufffd, any other character
\* as it is
EscapedReplacement == "\\ufffd"
EncodeChar(c) ==
    IF c = Quote THEN <<Backslash, Quote>>
    ELSE IF c = BadByte THEN <<EscapedReplacement>>
    ELSE <<c>>

RECURSIVE EncodeString(_)
EncodeString(str) ==
    IF str = << >> THEN << >>
    ELSE EncodeChar(Head(str)) \o EncodeString(Tail(str))

\* encoding/json, a string value read: escapes are undone
RECURSIVE DecodeString(_)
DecodeString(text) ==
    IF text = << >> THEN << >>
    ELSE IF Head(text) = Backslash /\ Len(text) > 1
      THEN <<text[2]>> \o DecodeString(Tail(Tail(text)))
    ELSE IF Head(text) = EscapedReplacement
      THEN <<Replacement>> \o DecodeString(Tail(text))
    ELSE <<Head(text)>> \o DecodeString(Tail(text))

\* session.go 21-29 and 32-42
New(projectRoot) ==
    [ProjectRoot |-> projectRoot, Mode |-> << >>, LastEditedFile |-> << >>,
     History |-> << >>]

\* session.go 78-81
SetMode(s, m) == [s EXCEPT !.Mode = m]

\* the session records the file last edited
SetLastEditedFile(s, f) == [s EXCEPT !.LastEditedFile = f]

\* session.go 45-52, on the session
WithMessage(s, role, text) == [s EXCEPT !.History = AddMessage(s.History, role, text)]

RECURSIVE WithMessages(_, _)
WithMessages(s, msgs) ==
    IF msgs = << >> THEN s
    ELSE WithMessages(WithMessage(s, Head(msgs).role, Head(msgs).content), Tail(msgs))

\* the sessions a run may hold when it saves
SavedModes == {<< >>, <<"plan">>}
SavedFiles == {<< >>, <<"a">>, <<Quote, "a">>}
SavedMessages == {Message(r, c) : r \in {<<"user">>, <<"assistant">>},
                                  c \in {<<"a">>, <<Quote, "a">>}}
Sessions ==
    {WithMessages(SetLastEditedFile(SetMode(New(r), m), f), h) :
        r \in Strings, m \in SavedModes, f \in SavedFiles,
        h \in SeqsUpTo(SavedMessages, MaxSaved)}

\* session.go 91: json.MarshalIndent(s, "", "  "), by its members
Marshal(s) ==
    [project_root |-> EncodeString(s.ProjectRoot),
     mode |-> EncodeString(s.Mode),
     last_edited_file |-> EncodeString(s.LastEditedFile),
     history |-> [i \in 1..Len(s.History) |->
                    [role |-> EncodeString(s.History[i].role),
                     content |-> EncodeString(s.History[i].content)]]]

\* session.go 142-145: json.Unmarshal(data, &session)
Unmarshal(doc) ==
    [ProjectRoot |-> DecodeString(doc.project_root),
     Mode |-> DecodeString(doc.mode),
     LastEditedFile |-> DecodeString(doc.last_edited_file),
     History |-> [i \in 1..Len(doc.history) |->
                    Message(DecodeString(doc.history[i].role),
                            DecodeString(doc.history[i].content))]]

\* the session file: missing, cut short by a failed write, or written
FileOf(state, doc) == [state |-> state, doc |-> doc]
NoSessionFile == FileOf("missing", Marshal(New(<< >>)))
CutShort == FileOf("cut short", Marshal(New(<< >>)))

SessionInit ==
    /\ sess \in Sessions
    /\ sessionFile = NoSessionFile
    /\ spc = "new" /\ saveErr = "" /\ loadErr = ""
    /\ loaded = New(<< >>) /\ cwd = << >>

SessionParked ==
    /\ sess = New(<< >>)
    /\ sessionFile = NoSessionFile
    /\ spc = "new" /\ saveErr = "" /\ loadErr = ""
    /\ loaded = New(<< >>) /\ cwd = << >>

\* session.go 84-101
Save ==
    /\ spc = "new"
    /\ \E outcome \in {"failed to get config dir", "failed to write session file", ""} :
         /\ saveErr' = outcome
         /\ sessionFile' =
               IF outcome = "" THEN FileOf("written", Marshal(sess))
               ELSE IF outcome = "failed to write session file" THEN CutShort
               ELSE sessionFile
    /\ spc' = "saved"
    /\ UNCHANGED <<sess, loaded, loadErr, cwd>>
    /\ UNCHANGED notSession

\* the directories the program is started in: menu.go 129-133 hands
\* os.Getwd() to Load
StartDirs == {<<"a">>, <<"a", "a">>}

\* session.go 125-148: Load(projectRoot); the argument is used only when
\* there is no session file
Load ==
    /\ spc = "saved"
    /\ cwd' \in StartDirs
    /\ \E outcome \in {"failed to get config dir", "failed to read session file", ""} :
         IF outcome # ""
           THEN loadErr' = outcome /\ UNCHANGED loaded
         ELSE IF sessionFile.state = "missing"
           THEN loadErr' = "" /\ loaded' = New(cwd')
         ELSE IF sessionFile.state = "cut short"
           THEN loadErr' = "failed to unmarshal session" /\ UNCHANGED loaded
         ELSE loadErr' = "" /\ loaded' = Unmarshal(sessionFile.doc)
    /\ spc' = "loaded"
    /\ UNCHANGED <<sess, sessionFile, saveErr>>
    /\ UNCHANGED notSession

SessionNext == Save \/ Load

(***************************************************************************)
(* Claims about the path guard (checked under SpecResolve)                 *)
(***************************************************************************)
\* the named elements of a path, in order
Names(path) == SelectSeq(Split(path), LAMBDA e : e # << >>)

Accepted == resolved.err = ""

\* C1: whenever Resolve succeeds, the returned path is absolute, holds no
\* "." or ".." element, and is the canonical absolute root itself or lies
\* below it: textually (the root, then a separator, is a prefix; the
\* filesystem root already ends in its separator) and element by element.
C1_ResolveStaysInRoot ==
    Accepted =>
        LET rootAbs == Abs(root, getwdOk).path
            abs     == resolved.absPath
        IN  /\ IsAbs(abs)
            /\ \/ abs = rootAbs
               \/ HasPrefix(abs, rootAbs \o <<Sep>>)
               \/ rootAbs = <<Sep>>
            /\ \A i \in 1..Len(Names(abs)) : Names(abs)[i] \notin {Dot, DotDot}
            /\ HasPrefix(Names(abs), Names(rootAbs))

\* C1 witness: the guard accepted a userPath that holds a ".." element
C1_Witness ==
    /\ Accepted
    /\ \E i \in 1..Len(Split(userPath)) : Split(userPath)[i] = DotDot
    /\ Abs(root, getwdOk).path # <<Sep>>


Called == resolved # NotCalled

\* userPath holds no ".." element
NoDotDotElement == \A i \in 1..Len(Split(userPath)) : Split(userPath)[i] # DotDot

\* a non-empty relative userPath without ".." element, and a non-empty root
PlainRelative ==
    /\ Called
    /\ root # << >>
    /\ userPath # << >>
    /\ ~IsAbs(userPath)
    /\ NoDotDotElement

\* C11 as stated: every non-empty relative userPath without ".." element
\* is accepted under a non-empty root, and root is a prefix of the
\* returned absolute path.
C11_PlainRelativeAccepted ==
    PlainRelative => (Accepted /\ HasPrefix(resolved.absPath, root))

\* C11 amended: such a userPath is accepted when its cleaned form is not
\* "." and the root's absolute form can be determined; the returned
\* absolute path has the cleaned absolute root as a prefix, and root itself
\* when root is absolute and clean.
C11_PlainRelativeAcceptedUnlessDot ==
    (PlainRelative /\ Clean(userPath) # Dot /\ Abs(root, getwdOk).ok) =>
        /\ Accepted
        /\ HasPrefix(resolved.absPath, Abs(root, getwdOk).path)
        /\ (IsAbs(root) /\ Clean(root) = root) => HasPrefix(resolved.absPath, root)

\* C11 witness: a userPath with "." elements, a doubled separator and an
\* element that begins with ".." is accepted below the root /a
C11_Witness ==
    /\ PlainRelative
    /\ root = <<Sep, "a">>
    /\ userPath = <<".", Sep, Sep, ".", ".", "a">>
    /\ resolved.absPath = <<Sep, "a", Sep, ".", ".", "a">>

\* C12: an absolute userPath, and a userPath whose cleaned form is ".." or
\* begins with "../", is rejected whatever the root; no path is returned.
C12_AbsoluteAndEscapingRejected ==
    (Called /\ (IsAbs(userPath)
                \/ Clean(userPath) = DotDot
                \/ HasPrefix(Clean(userPath), <<".", ".", Sep>>))) =>
        /\ resolved.err # ""
        /\ resolved.absPath = << >>

\* C12 witness: a/../.. cleans to ".." and is rejected as an escape
C12_Witness ==
    /\ Called
    /\ root = <<Sep, "a">>
    /\ userPath = <<"a", Sep, ".", ".", Sep, ".", ".">>
    /\ resolved.err = "path escapes project root"

\* C13: an empty root, an empty userPath and a userPath whose cleaned form
\* is "." are rejected, and neither path is returned.
C13_EmptyAndDotRejected ==
    (Called /\ (root = << >> \/ userPath = << >> \/ Clean(userPath) = Dot)) =>
        /\ resolved.err # ""
        /\ resolved.absPath = << >>
        /\ resolved.relPath = << >>

\* C13 witness: a/.. cleans to "." and is rejected as invalid
C13_Witness ==
    /\ Called
    /\ root = <<Sep, "a">>
    /\ userPath = <<"a", Sep, ".", ".">>
    /\ resolved.err = "invalid path"

\* C26: when the guard accepts, the relative path it returns is the cleaned
\* userPath, free of empty, "." and ".." elements, and the absolute path
\* is the cleaned absolute root joined with it: the root, a separator (the
\* filesystem root is its own separator) and the relative path.
C26_RelativeIsCleanAndJoinsRoot ==
    Accepted =>
        LET rootAbs == Abs(root, getwdOk).path
            rel     == resolved.relPath
        IN  /\ rel = Clean(userPath)
            /\ \A i \in 1..Len(Split(rel)) : Split(rel)[i] \notin {<< >>, Dot, DotDot}
            /\ resolved.absPath = Join(rootAbs, rel)
            /\ resolved.absPath =
                  (IF rootAbs = <<Sep>> THEN rootAbs ELSE rootAbs \o <<Sep>>) \o rel

\* C26 witness: under the relative root a, the userPath a/../a is
\* returned as a and as /w/a/a
C26_Witness ==
    /\ Accepted
    /\ root = <<"a">>
    /\ userPath = <<"a", Sep, ".", ".", Sep, "a">>
    /\ resolved.relPath = <<"a">>
    /\ resolved.absPath = <<Sep, "w", Sep, "a", Sep, "a">>

(***************************************************************************)
(* Claims about the mutation writer (checked under SpecWrite)              *)
(***************************************************************************)
InCall == absPath # << >>
TargetBackup == TargetPath \o BackupSuffix

\* C3: when the write of the backup fails on an existing regular file, the
\* call ends there with an error and the original still holds its prior
\* bytes; and the original differs from its prior bytes only once the
\* backup holds all of them, with no failure on the way.
C3_BackupFailureAborts ==
    /\ backupFailed =>
          /\ pc = "done"
          /\ err # ""
          /\ fs[absPath] = prior
    /\ (InCall /\ prior.kind = "file" /\ fs[absPath] # prior) =>
          /\ ~backupFailed
          /\ fs[absPath \o BackupSuffix] = File(prior.data)

\* C3 witness: the backup write stopped half way and the call has ended
C3_Witness ==
    /\ backupFailed
    /\ pc = "done"
    /\ prior = File(<<"x", "y">>)
    /\ fs[TargetBackup] = File(<<"x">>)
    /\ fs[TargetPath] = prior

\* C4: after two or more successful calls in a row on p, p holds the last
\* content and p.backup the one before it, whatever was written earlier;
\* this covers the run that starts on a missing p.
C4_LastBackupWins ==
    (pc = "idle" /\ okCount >= 2) =>
        /\ fs[TargetPath] = File(okRun[2])
        /\ fs[TargetBackup] = File(okRun[1])

\* C4 witness: three successful writes to a file that did not exist, the
\* last two with different contents
C4_Witness ==
    /\ pc = "idle"
    /\ freshRun
    /\ okCount >= 3
    /\ okRun[1] # okRun[2]

\* C5: in every state of a call on an existing regular file, between and
\* inside its file writes and after it, the bytes the file held when the
\* call began are complete in the original or in the backup.
C5_PriorContentSurvives ==
    (InCall /\ prior.kind = "file") =>
        \/ fs[absPath] = prior
        \/ fs[absPath \o BackupSuffix] = File(prior.data)

\* C5 witness: a repeated overwrite is stopped after the original was
\* truncated and before the new bytes are written
C5_Witness ==
    /\ pc = "write"
    /\ okCount >= 2
    /\ prior = File(<<"x", "y">>)
    /\ content = <<"y">>
    /\ fs[TargetPath] = File(<< >>)

\* the call in progress found no entry at absPath
FirstWrite == InCall /\ prior.kind = "none"

ParentIsAFile == InCall /\ treeAtCall[Dir(absPath)].kind = "file"

\* C15: when a component of the path above the target is a regular file
\* the call returns an error and the tree stays as it was found: that
\* entry is not replaced or changed and the target is not written.
C15_NonDirectoryParentIsFatal ==
    ParentIsAFile =>
        /\ fs = treeAtCall
        /\ fs[absPath] = NoEntry
        /\ pc = "done" => err = "failed to create directories"

\* C15 witness: MkdirAll met the regular file and the call returned its
\* error
C15_Witness ==
    /\ ParentIsAFile
    /\ pc = "done"
    /\ err = "failed to create directories"
    /\ fs[SubDir] = File(<< >>)

(***************************************************************************)
(* Claims about the transport client (checked under SpecClient)            *)
(***************************************************************************)
\* the non-empty fragments of the JSON lines of a body, in order
RECURSIVE FragmentsOf(_)
FragmentsOf(lines) ==
    IF lines = << >> THEN << >>
    ELSE (IF lines[1].kind = "json" /\ lines[1].response # ""
            THEN <<lines[1].response>> ELSE << >>)
         \o FragmentsOf(Tail(lines))

\* every line is a frame, the last one has done and none before it
WellFormedStream(lines) ==
    /\ lines # << >>
    /\ \A i \in 1..Len(lines) : lines[i].kind = "json" /\ (lines[i].done <=> i = Len(lines))

StreamReturned == Streaming /\ cpc = "returned" /\ status = StatusOK

\* C6: for a 200 answer whose body is a sequence of well-formed frames
\* ending with a done frame, read without a transport failure and with a
\* callback that returns nil, the callback is called once per non-empty
\* fragment, in the server's order, and the call returns nil.
C6_OrderedDelivery ==
    (StreamReturned /\ WellFormedStream(body) /\ cbErr = "" /\ scanErr # "read error") =>
        /\ delivered = FragmentsOf(body)
        /\ result.err = ""

\* the same for bodies whose lines all fit the scanner's buffer
OrderedDeliveryOfShortLines ==
    (\A i \in 1..Len(body) : ~body[i].long) => C6_OrderedDelivery

\* C7: once the callback has returned an error the loop is left at once:
\* the call returns that very error, the line whose fragment was refused is
\* the last one read, and the refused call is the callback's last.
C7_CallbackErrorStops ==
    cbErr # "" =>
        /\ cpc \in {"return", "returned"}
        /\ result.err = cbErr
        /\ genResp = body[next - 1]
        /\ delivered = FragmentsOf(SubSeq(body, 1, next - 1))
        /\ delivered[Len(delivered)] = genResp.response

\* C7 witness: the callback refused the second fragment while lines remain
C7_Witness ==
    /\ cpc = "returned"
    /\ cbErr = "callback error 2"
    /\ delivered = <<"a", "b">>
    /\ next <= Len(body)
    /\ body[next].kind = "json" /\ body[next].response # ""

\* the line last read is not JSON and json.Unmarshal has seen it
ParsedBadLine ==
    /\ Streaming
    /\ next > 1
    /\ body[next - 1].kind = "bad"
    /\ cpc # "unmarshal"

\* C8: a line that is not JSON ends the call with a parse error: no line
\* is read after it, the callback is called neither for it nor later, and
\* no malformed line is ever passed over.
C8_MalformedLineAborts ==
    /\ ParsedBadLine =>
          /\ cpc \in {"return", "returned"}
          /\ result.err = "failed to parse response"
          /\ delivered = FragmentsOf(SubSeq(body, 1, next - 2))
    /\ \A i \in 1..(next - 2) : body[i].kind # "bad"

\* C8 witness: a fragment was delivered, then a malformed line ended the
\* call although a good frame follows it
C8_Witness ==
    /\ ParsedBadLine
    /\ cpc = "returned"
    /\ delivered = <<"a">>
    /\ next <= Len(body)
    /\ body[next] = Frame("b", TRUE)

\* a frame with done was decoded and handled, the callback returning nil
HandledDoneFrame ==
    /\ Streaming
    /\ genResp.done
    /\ cbErr = ""
    /\ cpc \notin {"frame", "in_callback", "check_done"}

\* C9: the first decoded frame with done ends the stream, whatever
\* follows it: its own fragment has been delivered, no later line is read
\* or parsed, and the call returns nil.
C9_DoneEndsStream ==
    HandledDoneFrame =>
        /\ cpc \in {"scan_err", "return", "returned"}
        /\ genResp = body[next - 1]
        /\ \A i \in 1..(next - 2) : ~(body[i].kind = "json" /\ body[i].done)
        /\ delivered = FragmentsOf(SubSeq(body, 1, next - 1))
        /\ cpc \in {"return", "returned"} => result.err = ""

\* C9 witness: the done frame carried a fragment and a malformed line
\* follows it; the call returned nil
C9_Witness ==
    /\ HandledDoneFrame
    /\ cpc = "returned"
    /\ result.err = ""
    /\ genResp.response = "b"
    /\ delivered = <<"a", "b">>
    /\ next <= Len(body)
    /\ body[next] = BadLine

\* C10: when the server answers with a status outside 200..299, each of
\* GenerateWithModel, GenerateJSON and ListModels returns an error, and the
\* streaming callback is not called.
C10_Non2xxIsError ==
    (/\ cpc = "returned"
     /\ call \in {"GenerateWithModel", "GenerateJSON", "ListModels"}
     /\ status # 0
     /\ status \notin 200..299) =>
        /\ result.err # ""
        /\ delivered = << >>

C25_StructuredCallIsOneRequestOneBody ==
    (call = "GenerateJSON" /\ cpc = "returned") =>
        /\ requests <= 1
        /\ result.err = "" =>
              /\ requests = 1
              /\ sentRequest = Request("POST", "/api/generate", FALSE, "json")
              /\ FirstValue(body, 1) # 0
              /\ result.text = body[FirstValue(body, 1)].response

\* GenerateJSON has returned the text of a body of several lines, the first
\* of which holds a response
C25_Witness ==
    /\ call = "GenerateJSON" /\ cpc = "returned" /\ result.err = ""
    /\ Len(body) > 1 /\ body[1] = Frame("a", FALSE) /\ body[2] = Frame("b", TRUE)
    /\ result.text = "a"

\* C28: when GenerateWithModel has returned after a response was received
\* (a frame with done, the end of the body, an error of the callback, a
\* line that is not JSON, a status other than 200), the response body has
\* been closed.
C28_StreamClosedOnEveryReturn ==
    (Streaming /\ cpc = "returned" /\ status # 0) => ~respOpen

\* C28 witness: the call has returned with the body closed after the
\* callback refused a fragment while lines were still unread
C28_Witness ==
    /\ Streaming /\ cpc = "returned" /\ status = StatusOK
    /\ cbErr # ""
    /\ next <= Len(body)
    /\ ~respOpen

(***************************************************************************)
(* Claims about the modes (checked under SpecModes)                        *)
(***************************************************************************)
\* C2: every call that writes a file named by the user or by the model is
\* a call of safeio.WriteFileWithBackup on a path that ResolveWithinRoot
\* has returned before; no name reaches os.WriteFile as the model gave it.
C2_WritesGoThroughGuard ==
    \A i \in 1..Len(fsLog) :
        fsLog[i].op = "write" =>
            /\ fsLog[i].by = "safeio.WriteFileWithBackup"
            /\ fsLog[i].name \in accepted

\* the edit interaction has returned the path guard's rejection
EditRefused == mode = "edit" /\ mpc = "idle" /\ modeErr = "refusing to edit"
\* the file accesses of the interaction under way
AccessesOfCall == SubSeq(fsLog, logAtCall + 1, Len(fsLog))

\* C22: when an edit interaction returns the path guard's rejection of its
\* target, no file has been read, created, backed up or modified since the
\* interaction began.
C22_RejectionBeforeAnyAccess == EditRefused => AccessesOfCall = << >>

\* what holds of the code: the rejected target itself has not been
\* accessed, and nothing has been written
RejectedTargetUntouched ==
    EditRefused =>
        \A i \in 1..Len(AccessesOfCall) :
            /\ AccessesOfCall[i].op = "read"
            /\ AccessesOfCall[i].name # Join(ProjectRoot, fileToEdit)

\* agent mode has returned from a file creation in which a directory or a
\* file could not be created
AgentCreationFailed == mode = "agent" /\ mpc = "idle" /\ nFailed > 0

\* C23: when creating a directory or writing a generated file fails, agent
\* mode returns an error to its caller and does not report the files as
\* successfully created.
C23_CreationFailureIsReturned ==
    AgentCreationFailed => (modeErr # "" /\ reportedCreated = NoReport)

(***************************************************************************)
(* Claims about the conversation context (checked under SpecContext)       *)
(***************************************************************************)
\* the pieces of the returned string that belong to message i: its label,
\* its text and the blank line after it
LabelAt(i) == conversation[3 * i - 2]
TextAt(i) == conversation[3 * i - 1]
BreakAt(i) == conversation[3 * i]

Turns == 1..Len(sessHistory)
UserTurns == {i \in Turns : sessHistory[i].role = "user"}
\* the most recent user message, 0 when there is none
LastUserTurn == IF UserTurns = {} THEN 0 ELSE CHOOSE i \in UserTurns : \A j \in UserTurns : j <= i

C20_TurnsRenderedInOrder ==
    built =>
        /\ Len(conversation) = 3 * Len(sessHistory)
        /\ \A i \in Turns :
              /\ LabelAt(i) = (IF sessHistory[i].role = "user" THEN "User: "
                               ELSE "Assistant: ")
              /\ BreakAt(i) = "\n\n"
              /\ i < Len(sessHistory) => TextAt(i) = sessHistory[i].content
              /\ TextAt(i) \in {sessHistory[i].content, enhancedLastUserMessage}

\* C20 witness: three messages that begin with the assistant's
C20_Witness ==
    /\ built
    /\ sessHistory = <<Message("assistant", "hello"), Message("user", "hi"),
                       Message("assistant", "hi")>>
    /\ conversation = <<"Assistant: ", "hello", "\n\n", "User: ", "hi", "\n\n",
                        "Assistant: ", "hi", "\n\n">>

Parsed == ppc = "done"
ArrayOfObjects ==
    /\ jsonResponse.kind = "array"
    /\ \A i \in 1..Len(jsonResponse.elems) : jsonResponse.elems[i].kind = "object"

\* what the claim says of the three shapes of payload
ParsedAsClaimed ==
    /\ ArrayOfObjects =>
          /\ parseErr = NoParseError
          /\ Len(parsedFiles) = Len(jsonResponse.elems)
          /\ \A i \in 1..Len(parsedFiles) :
                parsedFiles[i] = GeneratedFile(jsonResponse.elems[i].filename,
                                               jsonResponse.elems[i].content)
    /\ jsonResponse.kind = "object" =>
          /\ parseErr = NoParseError
          /\ parsedFiles = <<GeneratedFile(jsonResponse.filename, jsonResponse.content)>>
    /\ jsonResponse.kind \notin {"array", "object"} =>
          /\ parseErr.msg # ""
          /\ parseErr.raw = jsonResponse
          /\ parsedFiles = << >>

\* C21: an array of {filename, content} objects gives its records in
\* order, a single object a list of that one record, and a payload that is
\* neither an array nor an object one error that carries the payload, and
\* no record.
C21_ArrayThenObjectElseError == Parsed => ParsedAsClaimed

\* the same for every payload but the JSON value null
ParsedAsClaimedUnlessNull ==
    (Parsed /\ jsonResponse # Null) => ParsedAsClaimed

(***************************************************************************)
(* Claims about the program's run (checked under SpecProgram)              *)
(***************************************************************************)
\* history h is history g with messages added at its end
Extends(h, g) == Len(g) <= Len(h) /\ SubSeq(h, 1, Len(g)) = g

\* C27: once a message is in the history it stays at its position, and
\* the history changes only by messages added at its end, whatever the
\* user enters.
C27_HistoryAppendOnly == [][Extends(sessionHistory', sessionHistory)]_vars

\* C27 amended: a step that is not the prompt reading /clear or a mode
\* command only adds messages at the end of the history; the prompt
\* reading /clear or a mode command empties it.
C27_HistoryAppendOnlyBetweenClears ==
    [][IF rpc = "prompt" /\ lastLine' \in {"clear", "command with prompt", "command"}
         THEN sessionHistory' = << >>
         ELSE Extends(sessionHistory', sessionHistory)]_vars

\* a prompt and its reply were recorded after the history had been
\* emptied by a mode command
C27_Witness ==
    /\ lastLine = "command with prompt"
    /\ rpc = "prompt"
    /\ promptsRead > 1
    /\ Len(sessionHistory) = 2

\* C29: CheckConnection returns no error exactly when ListModels returned
\* none; a failed check ends Run with an error before a session is loaded,
\* the first run is set up or a line is read, and none of these happens
\* before the check has succeeded.
C29_ConnectionCheckedFirst ==
    /\ rpc # "start" => (connErr = "" <=> listErr = "")
    /\ (rpc # "start" /\ connErr # "") =>
          /\ rpc = "returned"
          /\ runErr = "failed to connect to Ollama"
          /\ ~sessionLoaded /\ ~firstRun /\ promptsRead = 0
    /\ (sessionLoaded \/ firstRun \/ promptsRead > 0) =>
          (rpc # "start" /\ connErr = "")

\* C29 witness: the server answered with a status other than 200 and Run
\* returned at once
C29_Witness ==
    /\ rpc = "returned"
    /\ listErr = "ollama returned status"
    /\ connErr = "ollama returned status"
    /\ runErr = "failed to connect to Ollama"
    /\ ~sessionLoaded /\ promptsRead = 0

(***************************************************************************)
(* Claims about the session file (checked under SpecSession)               *)
(***************************************************************************)
SavedAndLoaded == spc = "loaded" /\ saveErr = "" /\ loadErr = ""

\* C30: a session saved and then loaded comes back with the project root,
\* the mode, the last edited file and the history (as many turns, in the
\* same order) of the session saved.
C30_SaveLoadRoundTrip ==
    SavedAndLoaded =>
        /\ loaded.ProjectRoot = sess.ProjectRoot
        /\ loaded.Mode = sess.Mode
        /\ loaded.LastEditedFile = sess.LastEditedFile
        /\ Len(loaded.History) = Len(sess.History)
        /\ \A i \in 1..Len(sess.History) : loaded.History[i].role = sess.History[i].role

\* every string of the session is valid UTF-8
ValidUTF8(str) == \A i \in 1..Len(str) : str[i] # BadByte
SessionIsValidUTF8 ==
    /\ ValidUTF8(sess.ProjectRoot) /\ ValidUTF8(sess.Mode)
    /\ ValidUTF8(sess.LastEditedFile)
    /\ \A i \in 1..Len(sess.History) : ValidUTF8(sess.History[i].content)

\* a session whose strings are valid UTF-8 comes back as it was saved
RoundTripOfValidUTF8 == (SavedAndLoaded /\ SessionIsValidUTF8) => loaded = sess

(***************************************************************************)
(* CMD mode: CmdMode.Run (cmd.go) and the quick command /cmd of            *)
(* executeQuickCommand (prompt.go).  A reply of the model is a sequence of *)
(* segments: plain text, or a fenced block with its language tag and body. *)
(* Everything the program does with a reply is recorded in effects, as the *)
(* call made and what it was given.                                        *)
(***************************************************************************)
Text(t) == [kind |-> "text", lang |-> "", body |-> t]
Block(lang, b) == [kind |-> "block", lang |-> lang, body |-> b]
CmdReplies ==
    {<< >>, <<Text(" ")>>, <<Text("try")>>, <<Block("bash", "ls")>>,
     <<Text("try"), Block("bash", "ls")>>, <<Block("bash", "ls"), Block("", "rm")>>,
     <<Block("python", "x")>>, <<Block("sh", " ")>>}
CmdInputs == {"list"}

\* the tags the pattern of extractCommands accepts after the fence
ShellTags == {"bash", "powershell", "sh", "shell", ""}
\* strings.TrimSpace of a block's body
TrimSpace(b) == IF b = " " THEN "" ELSE b

RECURSIVE extractCommands(_)
extractCommands(response) ==
    IF response = << >> THEN << >>
    ELSE LET seg == Head(response)
             rest == extractCommands(Tail(response))
         IN IF /\ seg.kind = "block"
               /\ seg.lang \in ShellTags
               /\ TrimSpace(seg.body) # ""
            THEN <<TrimSpace(seg.body)>> \o rest
            ELSE rest

\* strings.TrimSpace(response) = "": the reply holds nothing but white space
RECURSIVE IsBlank(_)
IsBlank(response) ==
    \/ response = << >>
    \/ /\ Head(response).kind = "text"
       /\ TrimSpace(Head(response).body) = ""
       /\ IsBlank(Tail(response))

Effect(op, arg) == [op |-> op, arg |-> arg]

\* a faulty variant of AfterReply: the commands of the reply are started as well
AfterReplyRunning(response) ==
    <<Effect("print", response), Effect("exec.Command", extractCommands(response))>>
\* what CmdMode.Run does with a reply once generation has returned, before
\* the clipboard: the callback has printed every chunk
AfterReply(response) == <<Effect("print", response)>>

\* the clipboard step of CmdMode.Run: the extracted commands, if any
CopyCommands(response) ==
    IF extractCommands(response) # << >>
    THEN <<Effect("clipboard.WriteAll", extractCommands(response))>>
    ELSE << >>
\* the clipboard step of the quick command: the whole reply, unless blank
CopyResponse(response) ==
    IF ~IsBlank(response)
    THEN <<Effect("clipboard.WriteAll", response)>>
    ELSE << >>

CmdIdle ==
    /\ cmdpc = "idle" /\ cmdInput = "" /\ via = ""
CmdInit ==
    /\ CmdIdle
    /\ cmdHistory = << >> /\ effects = << >> /\ clipboard = << >>
    /\ cmdTurns = 0
CmdParked == CmdInit

\* a line typed at cmd>, or /cmd <input> typed at the prompt: the user
\* message is appended and generation begins
CmdAsk(how, input) ==
    /\ cmdpc = "idle" /\ cmdTurns < MaxCmdTurns
    /\ cmdpc' = "generating" /\ via' = how /\ cmdInput' = input
    /\ cmdHistory' = AddMessage(cmdHistory, "user", input)
    /\ effects' = <<Effect("AddMessage", input)>>
    /\ cmdTurns' = cmdTurns + 1
    /\ UNCHANGED clipboard

\* generation failed: the loop prints the error and continues, the quick
\* command returns it
CmdGenerateFails ==
    /\ cmdpc = "generating"
    /\ cmdpc' = "idle" /\ cmdInput' = "" /\ via' = ""
    /\ UNCHANGED <<cmdHistory, effects, clipboard, cmdTurns>>

\* generation returned the reply: it has been printed; its commands (the
\* loop) or the reply itself (the quick command) go to the clipboard, which
\* may refuse; the reply is appended to the history and the session saved
CmdGenerated(response, clipOk) ==
    /\ cmdpc = "generating"
    /\ LET copy == IF via = "loop" THEN CopyCommands(response)
                   ELSE CopyResponse(response)
       IN /\ effects' = effects \o AfterReply(response) \o copy
                        \o <<Effect("AddMessage", response), Effect("Save", response)>>
          /\ clipboard' = IF copy # << >> /\ clipOk THEN copy[1].arg ELSE clipboard
    /\ cmdHistory' = AddMessage(cmdHistory, "assistant", response)
    /\ cmdpc' = "idle" /\ cmdInput' = "" /\ via' = ""
    /\ UNCHANGED cmdTurns

CmdNext ==
    \/ \E how \in {"loop", "quick"}, input \in CmdInputs :
           CmdAsk(how, input) /\ UNCHANGED notCmd
    \/ CmdGenerateFails /\ UNCHANGED notCmd
    \/ \E response \in CmdReplies, clipOk \in BOOLEAN :
           CmdGenerated(response, clipOk) /\ UNCHANGED notCmd

(***************************************************************************)
(* C31                                                                     *)
(***************************************************************************)
\* what the program may do with a generated command
PermittedEffects == {"print", "clipboard.WriteAll", "AddMessage", "Save"}

\* C31: a generated command is never executed: in the CMD loop and in the
\* quick command /cmd, all that happens to a reply is that it is printed,
\* copied to the clipboard and appended to the (saved) history
C31_CommandsNeverExecuted ==
    \A i \in 1..Len(effects) : effects[i].op \in PermittedEffects

\* a reply holding a shell command has been handled: printed, its command on
\* the clipboard and the reply in the history
C31_Witness ==
    /\ cmdpc = "idle" /\ cmdHistory # << >>
    /\ cmdHistory[Len(cmdHistory)].role = "assistant"
    /\ extractCommands(cmdHistory[Len(cmdHistory)].content) = <<"ls">>
    /\ clipboard = <<"ls">>

(***************************************************************************)
(* C32                                                                     *)
(***************************************************************************)
\* the writes of the edit interaction in progress (or last finished)
EditWrites ==
    {i \in (logAtCall + 1)..Len(fsLog) : mode = "edit" /\ fsLog[i].op = "write"}

\* C32: the file an edit writes is the path the path guard resolves from
\* the name the request gives (in the input, else the session's last edited
\* file); the filename field of the model's reply has no part in it
C32_WriteTargetIsGuardedInput ==
    \A i \in EditWrites :
        LET r == ResolveWithinRoot(ProjectRoot, named, TRUE)
        IN r.err = "" /\ fsLog[i].name = r.absPath

\* an edit of f has written while the model's reply named d/g
C32_Witness ==
    /\ mpc = "idle" /\ EditWrites # {}
    /\ named = <<"f">> /\ resultFilename = <<"d", Sep, "g">>
    /\ fsLog[Len(fsLog)].name = Join(ProjectRoot, <<"f">>)

(***************************************************************************)
(* Client.Generate (client.go 111-186), as one function of what the call   *)
(* meets: the status and the body of the answer, the call of the callback  *)
(* that returns an error (0: none) with that error, and the number of      *)
(* lines read before the connection fails (NoReadError: it does not)       *)
(***************************************************************************)
NoReadError == -1
Outcome(e, given) == [err |-> e, delivered |-> given]

\* client.go 158-185: the loop over the lines, from line i on, with the
\* fragments handed to the callback so far
RECURSIVE GenerateLoop(_, _, _, _, _, _)
GenerateLoop(lines, i, given, cbFailAt, cbError, readFailAfter) ==
    IF readFailAfter = i - 1 THEN Outcome("error reading response", given)
    ELSE IF i > Len(lines) THEN Outcome("", given)
    ELSE IF lines[i].long THEN Outcome("error reading response", given)
    ELSE IF lines[i].kind = "empty"
      THEN GenerateLoop(lines, i + 1, given, cbFailAt, cbError, readFailAfter)
    ELSE IF lines[i].kind = "bad" THEN Outcome("failed to parse response", given)
    ELSE LET now == IF lines[i].response # ""
                    THEN Append(given, lines[i].response) ELSE given
         IN IF lines[i].response # "" /\ Len(now) = cbFailAt
              THEN Outcome(cbError, now)
            ELSE IF lines[i].done THEN Outcome("", now)
            ELSE GenerateLoop(lines, i + 1, now, cbFailAt, cbError, readFailAfter)

\* a faulty variant of Generate: the status of the answer is not looked at
GenerateAnyStatus(answer, lines, cbFailAt, cbError, readFailAfter) ==
    GenerateLoop(lines, 1, << >>, cbFailAt, cbError, readFailAfter)
\* client.go 152-185
Generate(answer, lines, cbFailAt, cbError, readFailAfter) ==
    IF answer # StatusOK THEN Outcome("ollama API error", << >>)
    ELSE GenerateLoop(lines, 1, << >>, cbFailAt, cbError, readFailAfter)

(***************************************************************************)
(* C33                                                                     *)
(***************************************************************************)
\* the body holds no frame with done, and each of its lines can be parsed
Truncated(lines) ==
    \A i \in 1..Len(lines) : ~lines[i].done /\ lines[i].kind # "bad"

\* GenerateWithModel has returned from a body that ended without done, with
\* no read error and no error from the callback
ReturnedFromTruncated ==
    /\ cpc = "returned" /\ call = "GenerateWithModel"
    /\ status = StatusOK /\ Truncated(body)
    /\ scanErr = "" /\ cbErr = ""

\* C33: a streaming call whose body ends without a frame with done, with no
\* read error, returns nil after handing every fragment to the callback,
\* as it does for a completed stream; so does Generate
C33_TruncatedStreamReturnsNil ==
    /\ ReturnedFromTruncated
         => result.err = "" /\ delivered = FragmentsOf(body)
    /\ (Truncated(body) /\ \A i \in 1..Len(body) : ~body[i].long)
         => Generate(StatusOK, body, 0, "", NoReadError)
              = Outcome("", FragmentsOf(body))

\* a truncated stream of two fragments has been read to its end
C33_Witness ==
    /\ ReturnedFromTruncated
    /\ body = <<Frame("a", FALSE), Frame("b", FALSE)>>
    /\ delivered = <<"a", "b">>

(***************************************************************************)
(* C38                                                                     *)
(***************************************************************************)
\* GenerateWithModel has returned from an answer of the server
ReturnedFromAnswer ==
    cpc = "returned" /\ call = "GenerateWithModel" /\ status # 0

\* what Generate does when it meets what that call met: the same answer,
\* the same callback error at the same call, the same read error after the
\* same number of lines
GenerateOnTheSame ==
    Generate(status, body,
             IF cbErr # "" THEN Len(delivered) ELSE 0, cbErr,
             IF scanErr = "read error" THEN next - 1 ELSE NoReadError)

\* C38: Generate and GenerateWithModel (with the model Generate uses) agree
\* on every answer of the server: the same fragments reach the callback, in
\* the same order, and the same outcome is returned
C38_GenerateAgreesWithGenerateWithModel ==
    ReturnedFromAnswer => GenerateOnTheSame = Outcome(result.err, delivered)

\* a stream that goes on after its frame with done has been read by both
C38_Witness ==
    /\ ReturnedFromAnswer /\ status = StatusOK
    /\ body = <<Frame("a", FALSE), Frame("b", TRUE), Frame("a", FALSE)>>
    /\ delivered = <<"a", "b">> /\ result.err = ""

\* a callback error has ended both
C38_WitnessCallbackError ==
    /\ ReturnedFromAnswer /\ cbErr # "" /\ Len(delivered) = 2

(***************************************************************************)
(* C34                                                                     *)
(***************************************************************************)
\* every assistant turn of the history comes right after a user turn
AssistantFollowsUser(hist) ==
    \A i \in 1..Len(hist) :
        hist[i] = "assistant" => i > 1 /\ hist[i - 1] = "user"

\* C34: in every mode interaction the assistant turn is appended only when
\* generation returned without error, and right after a user turn; a
\* failed interaction leaves the user turn and adds nothing; so from an
\* empty history every assistant turn comes right after a user turn
C34_AssistantOnlyAfterSuccess ==
    [][ /\ (History' # History /\ History'[Len(History')] = "assistant")
            => /\ History' = Append(History, "assistant")
               /\ History # << >> /\ History[Len(History)] = "user"
               /\ modeErr' = ""
        /\ (modeErr' # "" => History' = History)
        /\ AssistantFollowsUser(History') ]_vars

\* a failed interaction, which left only its user turn, and a successful
\* one after it
C34_Witness ==
    /\ mpc = "idle" /\ modeErr = ""
    /\ History = <<"user", "user", "assistant">>

(***************************************************************************)
(* C35                                                                     *)
(***************************************************************************)
\* an edit has ended because structured generation failed or its payload
\* could not be parsed
EditGenerationFailed ==
    /\ mode = "edit" /\ mpc = "idle"
    /\ modeErr \in {"error generating JSON", "error parsing JSON response"}

\* C35: when an edit's structured generation fails or its payload is not
\* JSON, the target file is not written, no backup file is created or
\* changed, and no assistant turn is appended
C35_FailedEditChangesNothing ==
    EditGenerationFailed =>
        /\ EditWrites = {}
        /\ disk = diskAtCall
        /\ History # << >> /\ History[Len(History)] = "user"

\* an edit of the existing file f has ended on a payload that is not JSON
C35_Witness ==
    /\ EditGenerationFailed /\ modeErr = "error parsing JSON response"
    /\ editAbs = Join(ProjectRoot, <<"f">>) /\ editAbs \in disk

(***************************************************************************)
(* C36                                                                     *)
(***************************************************************************)
\* C36: after Load(projectRoot) has returned without error, the session it
\* returned has the ProjectRoot it was given, whether the session is new
\* or was read from the session file (fails: a session read from the file
\* keeps the root it was saved with)
C36_LoadedRootIsArgument ==
    (spc = "loaded" /\ loadErr = "") => loaded.ProjectRoot = cwd

(***************************************************************************)
(* The context executeQuickCommand builds itself (prompt.go 194-211)       *)
(***************************************************************************)
\* a faulty variant of InlineSubstituted: the enhanced prompt is never used
InlineNeverSubstituted(hist, i) == FALSE
\* prompt.go 199: i == len(sess.History)-1
InlineSubstituted(hist, i) == i = Len(hist)

\* prompt.go 195-210: the loop over sess.History, from message i on, with
\* what has been written to conversationContext so far
RECURSIVE InlineContextFrom(_, _, _, _)
InlineContextFrom(hist, i, enhancedPrompt, written) ==
    IF i > Len(hist) THEN written
    ELSE LET msg == hist[i]
             now ==
               IF msg.role = "user"
                 THEN written \o <<"User: ">>
                        \o (IF InlineSubstituted(hist, i) THEN <<enhancedPrompt>>
                            ELSE <<msg.content>>)
                        \o <<"\n\n">>
               ELSE IF msg.role = "assistant"
                 THEN written \o <<"Assistant: ">> \o <<msg.content>> \o <<"\n\n">>
               ELSE written
         IN InlineContextFrom(hist, i + 1, enhancedPrompt, now)

\* prompt.go 194-211
InlineContext(hist, enhancedPrompt) ==
    InlineContextFrom(hist, 1, enhancedPrompt, << >>)

(***************************************************************************)
(* C39                                                                     *)
(***************************************************************************)
\* C39: for every history and every enhanced prompt, the context that
\* executeQuickCommand builds inline is the one BuildConversationContext
\* returns
C39_InlineContextIsBuildConversationContext ==
    built => InlineContext(sessHistory, enhancedLastUserMessage) = conversation

\* a history of an exchange and a new user message, whose text is replaced
\* by the enhanced prompt
C39_Witness ==
    /\ built /\ Len(sessHistory) = 3
    /\ sessHistory[1].role = "user" /\ sessHistory[2].role = "assistant"
    /\ sessHistory[3] = Message("user", "hi")
    /\ enhancedLastUserMessage = "hi [file: x]"
    /\ conversation[8] = "hi [file: x]"

(***************************************************************************)
(* The list screens (package ui): the main menu (menuModel), the first-run *)
(* model selection (firstRunModel, RunFirstRun) and the model              *)
(* configuration (modelConfigModel).  Cursors count from 0, as in the      *)
(* code; a key press or the message of Init's command is one Update.       *)
(***************************************************************************)
\* menu.go 49-55: the choices of the main menu
Choices == <<"Plan", "Edit", "Agent", "CMD", "Configure Models">>
\* firstrun.go 184: the modes of the model configuration
ConfigModes == <<"plan", "edit", "agent", "cmd", "ask">>
\* what ListModels may return to Init's command
ModelLists == {<< >>, <<"m1">>, <<"m1", "m2">>}
Keys == {"q", "esc", "up", "down", "enter"}

modelsLoadedMsg(models) == [type |-> "modelsLoadedMsg", models |-> models]
errMsg == [type |-> "errMsg", models |-> << >>]
NoMsg == [type |-> "none", models |-> << >>]

\* an index expression evaluated: the list's length and the index
IndexOf(list, i) == [len |-> Len(list), at |-> i]
NoIndex == [len |-> 0, at |-> -1]
InRange(ix) == 0 <= ix.at /\ ix.at < ix.len

\* the models the configuration has assigned to the modes
NoModels == [m \in {"plan", "edit", "agent", "cmd"} |-> ""]

ScreensIdle ==
    /\ cursor = 0 /\ modelCursor = 0 /\ configState = "select_mode"
    /\ currentMode = "" /\ availableModels = << >>
    /\ selected = FALSE /\ uiErr = FALSE /\ quit = FALSE
    /\ indexed = NoIndex /\ panicked = FALSE /\ cfgModels = NoModels

\* menu.go 31-62, firstrun.go 22-39 and 179-196: the screen as it is
\* constructed, with the message its Init command will deliver
ScreensInit ==
    /\ ScreensIdle
    /\ screen \in {"menu", "firstrun", "modelconfig"}
    /\ loading = (screen = "firstrun")
    /\ IF screen = "menu" THEN inbox = NoMsg
       ELSE inbox \in {modelsLoadedMsg(l) : l \in ModelLists} \cup {errMsg}

ScreensParked ==
    /\ ScreensIdle /\ screen = "none" /\ loading = FALSE /\ inbox = NoMsg

Running == ~quit /\ ~panicked

\* menu.go 69-93: menuModel.Update
MenuKey(key) ==
    /\ screen = "menu" /\ Running
    /\ cursor' = IF key = "up" /\ cursor > 0 THEN cursor - 1
                 ELSE IF key = "down" /\ cursor < Len(Choices) - 1 THEN cursor + 1
                 ELSE cursor
    /\ selected' = (selected \/ key = "enter")
    /\ quit' = (key \in {"q", "enter"})
    /\ UNCHANGED <<screen, modelCursor, configState, currentMode, availableModels,
                   loading, uiErr, inbox, indexed, panicked, cfgModels>>

\* menu.go 184-189: ShowMenu takes the choice under the cursor
MenuSelected ==
    /\ screen = "menu" /\ quit /\ selected /\ indexed = NoIndex
    /\ indexed' = IndexOf(Choices, cursor)
    /\ panicked' = ~InRange(indexed')
    /\ UNCHANGED <<screen, cursor, modelCursor, configState, currentMode,
                   availableModels, loading, selected, uiErr, inbox, quit, cfgModels>>

\* firstrun.go 43-51 and 209-216: the message of Init's command arrives
LoadMsg ==
    /\ screen \in {"firstrun", "modelconfig"} /\ Running
    /\ inbox # NoMsg
    /\ IF inbox.type = "modelsLoadedMsg"
         THEN availableModels' = inbox.models /\ UNCHANGED uiErr
         ELSE uiErr' = TRUE /\ UNCHANGED availableModels
    /\ loading' = FALSE
    /\ inbox' = NoMsg
    /\ UNCHANGED <<screen, cursor, modelCursor, configState, currentMode,
                   selected, quit, indexed, panicked, cfgModels>>

\* firstrun.go 53-78: firstRunModel.Update on a key
FirstRunKey(key) ==
    /\ screen = "firstrun" /\ Running
    /\ IF loading THEN UNCHANGED <<cursor, selected, quit>>
       ELSE /\ cursor' =
                 IF key = "up" /\ cursor > 0 THEN cursor - 1
                 ELSE IF key = "down" /\ cursor < Len(availableModels) - 1
                   THEN cursor + 1
                 ELSE cursor
            /\ selected' = (selected \/ (key = "enter" /\ Len(availableModels) > 0))
            /\ quit' = (key = "q" \/ (key = "enter" /\ Len(availableModels) > 0))
    /\ UNCHANGED <<screen, modelCursor, configState, currentMode, availableModels,
                   loading, uiErr, inbox, indexed, panicked, cfgModels>>

\* firstrun.go 137-154: RunFirstRun returns the name of the model under
\* the cursor
FirstRunSelected ==
    /\ screen = "firstrun" /\ quit /\ indexed = NoIndex
    /\ ~uiErr /\ selected /\ Len(availableModels) # 0
    /\ indexed' = IndexOf(availableModels, cursor)
    /\ panicked' = ~InRange(indexed')
    /\ UNCHANGED <<screen, cursor, modelCursor, configState, currentMode,
                   availableModels, loading, selected, uiErr, inbox, quit, cfgModels>>

\* firstrun.go 218-279: modelConfigModel.Update on a key; in select_model
\* Enter indexes availableModels with modelCursor, whatever the list holds
\* (257-259)
ModelConfigKey(key) ==
    /\ screen = "modelconfig" /\ Running
    /\ IF key = "q"
         THEN /\ quit' = TRUE
              /\ UNCHANGED <<cursor, modelCursor, configState, currentMode, uiErr,
                             indexed, panicked, cfgModels>>
       ELSE IF key = "esc"
         THEN /\ quit' = (configState # "select_model")
              /\ configState' = "select_mode"
              /\ modelCursor' = IF configState = "select_model" THEN 0 ELSE modelCursor
              /\ UNCHANGED <<cursor, currentMode, uiErr, indexed, panicked, cfgModels>>
       ELSE IF key = "up"
         THEN /\ IF configState = "select_mode"
                   THEN /\ cursor' = IF cursor > 0 THEN cursor - 1 ELSE cursor
                        /\ UNCHANGED modelCursor
                   ELSE /\ modelCursor' = IF modelCursor > 0 THEN modelCursor - 1
                                          ELSE modelCursor
                        /\ UNCHANGED cursor
              /\ UNCHANGED <<configState, currentMode, uiErr, quit, indexed,
                             panicked, cfgModels>>
       ELSE IF key = "down"
         THEN /\ IF configState = "select_mode"
                   THEN /\ cursor' = IF cursor < Len(ConfigModes) - 1 THEN cursor + 1
                                     ELSE cursor
                        /\ UNCHANGED modelCursor
                   ELSE /\ modelCursor' =
                             IF modelCursor < Len(availableModels) - 1
                               THEN modelCursor + 1 ELSE modelCursor
                        /\ UNCHANGED cursor
              /\ UNCHANGED <<configState, currentMode, uiErr, quit, indexed,
                             panicked, cfgModels>>
       ELSE IF configState = "select_mode"
         THEN /\ currentMode' = ConfigModes[cursor + 1]
              /\ configState' = "select_model"
              /\ modelCursor' = 0
              /\ UNCHANGED <<cursor, uiErr, quit, indexed, panicked, cfgModels>>
       ELSE /\ indexed' = IndexOf(availableModels, modelCursor)
            /\ IF ~InRange(indexed')
                 THEN /\ panicked' = TRUE
                      /\ UNCHANGED <<configState, uiErr, cfgModels>>
                 ELSE /\ UNCHANGED panicked
                      /\ cfgModels' =
                            IF currentMode \in DOMAIN cfgModels
                              THEN [cfgModels EXCEPT
                                      ![currentMode] = availableModels[modelCursor + 1]]
                            ELSE cfgModels
                      /\ \E saveOk \in BOOLEAN : uiErr' = (uiErr \/ ~saveOk)
                      /\ configState' = "select_mode"
            /\ UNCHANGED <<cursor, modelCursor, currentMode, quit>>
    /\ UNCHANGED <<screen, availableModels, loading, selected, inbox>>

ScreensNext ==
    \/ \E key \in Keys : MenuKey(key) /\ UNCHANGED notScreens
    \/ MenuSelected /\ UNCHANGED notScreens
    \/ LoadMsg /\ UNCHANGED notScreens
    \/ \E key \in Keys : FirstRunKey(key) /\ UNCHANGED notScreens
    \/ FirstRunSelected /\ UNCHANGED notScreens
    \/ \E key \in Keys : ModelConfigKey(key) /\ UNCHANGED notScreens

(***************************************************************************)
(* C37                                                                     *)
(***************************************************************************)
\* C37: in every list screen, after any key presses and load messages, the
\* cursor is an index of the list when Enter selects with it; in the model
\* configuration Enter in select_model never indexes an empty or shorter
\* list of models, also before the list has loaded (fails there)
C37_EnterIndexesWithinList == indexed # NoIndex => InRange(indexed)

\* the claim on the main menu and on the first-run selection alone
EnterIndexesWithinListElsewhere ==
    (screen \in {"menu", "firstrun"} /\ indexed # NoIndex) => InRange(indexed)

(***************************************************************************)
(* Specifications, one per component                                       *)
(***************************************************************************)
InitResolve ==
    /\ ResolveInit
    /\ WriteParked /\ ClientParked /\ ModesParked /\ ContextParked
    /\ ParseParked /\ ProgramParked /\ SessionParked /\ CmdParked
    /\ ScreensParked
SpecResolve == InitResolve /\ [][Resolve]_vars

InitWrite ==
    /\ WriteInit
    /\ ResolveParked /\ ClientParked /\ ModesParked /\ ContextParked
    /\ ParseParked /\ ProgramParked /\ SessionParked /\ CmdParked
    /\ ScreensParked
SpecWrite == InitWrite /\ [][WriteNext]_vars

InitClient ==
    /\ ClientInit
    /\ ResolveParked /\ WriteParked /\ ModesParked /\ ContextParked
    /\ ParseParked /\ ProgramParked /\ SessionParked /\ CmdParked
    /\ ScreensParked
SpecClient == InitClient /\ [][ClientNext]_vars

InitModes ==
    /\ ModesInit
    /\ ResolveParked /\ WriteParked /\ ClientParked /\ ContextParked
    /\ ParseParked /\ ProgramParked /\ SessionParked /\ CmdParked
    /\ ScreensParked
SpecModes == InitModes /\ [][ModesNext]_vars

InitContext ==
    /\ ContextInit
    /\ ResolveParked /\ WriteParked /\ ClientParked /\ ModesParked
    /\ ParseParked /\ ProgramParked /\ SessionParked /\ CmdParked
    /\ ScreensParked
SpecContext == InitContext /\ [][BuildContext]_vars

InitParse ==
    /\ ParseInit
    /\ ResolveParked /\ WriteParked /\ ClientParked /\ ModesParked
    /\ ContextParked /\ ProgramParked /\ SessionParked /\ CmdParked
    /\ ScreensParked
SpecParse == InitParse /\ [][ParseNext]_vars

InitProgram ==
    /\ ProgramInit
    /\ ResolveParked /\ WriteParked /\ ClientParked /\ ModesParked
    /\ ContextParked /\ ParseParked /\ SessionParked /\ CmdParked
    /\ ScreensParked
SpecProgram == InitProgram /\ [][ProgramNext]_vars

InitSession ==
    /\ SessionInit
    /\ ResolveParked /\ WriteParked /\ ClientParked /\ ModesParked
    /\ ContextParked /\ ParseParked /\ ProgramParked /\ CmdParked
    /\ ScreensParked
SpecSession == InitSession /\ [][SessionNext]_vars

InitCmd ==
    /\ CmdInit
    /\ ResolveParked /\ WriteParked /\ ClientParked /\ ModesParked
    /\ ContextParked /\ ParseParked /\ ProgramParked /\ SessionParked
    /\ ScreensParked
SpecCmd == InitCmd /\ [][CmdNext]_vars

InitScreens ==
    /\ ScreensInit
    /\ ResolveParked /\ WriteParked /\ ClientParked /\ ModesParked
    /\ ContextParked /\ ParseParked /\ ProgramParked /\ SessionParked
    /\ CmdParked
SpecScreens == InitScreens /\ [][ScreensNext]_vars

====
